---- MODULE Spec2Model ----
(***************************************************************************)
(* Model of the lifecycle export engine.                                   *)
(*                                                                         *)
(*   Part I   VolumeCache (src/cache/volume_cache.go): the directory       *)
(*            triple staging/ committed/ committed-backup/ under one cache *)
(*            root, the operations of one VolumeCache instance at a time,  *)
(*            and process crashes inside Commit.                           *)
(*   Part II  Exporter (src/exporter.go): one Export call, step by step,   *)
(*            and the calls it issues on the working image.                *)
(*                                                                         *)
(* File system model.  A directory is [exists, files] where files maps a   *)
(* file name to the content of the file.  os.Link makes two names share    *)
(* one inode; the shared inodes are kept in links, a set of <<name, B>>    *)
(* with B the set of directories whose entry `name` is the same inode      *)
(* (hard links are only ever made between entries of the same name).       *)
(* A write through one entry is seen through every entry of its block.     *)
(*                                                                         *)
(* Environment faults.  rename, mkdir and remove may fail, a write or copy  *)
(* may stop part-way, and an open-for-read may fail; each action draws the *)
(* outcome with \E.  os.Stat answers truthfully, os.Link fails only with   *)
(* ENOENT/EEXIST, creating a file in an existing directory succeeds, and   *)
(* the cache root itself always exists.                                    *)
(***************************************************************************)
EXTENDS Naturals, Sequences, FiniteSets, TLC

VARIABLES
    dirs,        \* disk: [Paths -> [exists : BOOLEAN, files : name -> content]]
    links,       \* disk: set of <<name, B>>, B \subseteq Paths, |B| >= 2
    pc,          \* "none": no instance; "idle": instance between calls;
                 \* "promote" / "rollback" / "defer": inside Commit
    committed,   \* VolumeCache.committed
    pending,     \* the error Commit is about to return (while pc = "defer")
    last,        \* the last call: [op, arg, err, did], err = "" for nil, did =
                 \* what the call did on disk
    sessions,    \* number of NewVolumeCache calls so far
    put,         \* names of the files of staging/ whose content was put there
                 \* by a call of this instance that returned nil
    atCommit,    \* views of staging/ and committed/ when Commit was called,
                 \* and whether staging/ has been promoted since
    lastGen,     \* what the most recent promotion put into committed/, and
                 \* whether a process died inside Commit since
    sessMeta,    \* outcome of the last SetMetadata call of this instance
    ex           \* state of one Export call (Part II)

cacheVars == <<dirs, links, pc, committed, pending, last, sessions, put,
               atCommit, lastGen, sessMeta>>
vars == <<dirs, links, pc, committed, pending, last, sessions, put,
          atCommit, lastGen, sessMeta, ex>>

----------------------------------------------------------------------------
(* Bounds *)

MaxSessions == 3
MaxBuildpacks == 2
MaxLayers == 2
MaxSlices == 2
MaxLabels == 1

----------------------------------------------------------------------------
(* Paths of NewVolumeCache, file names, contents *)

stagingDir == "staging"
committedDir == "committed"
backupDir == "committed-backup"
Paths == {stagingDir, committedDir, backupDir}

GOOS == "linux"

\* A digest is the token sequence <<"sha256:", hex>>.
DigestA == <<"sha256:", "A">>
DigestB == <<"sha256:", "B">>
Digests == {DigestA, DigestB}

MetadataLabel == <<"io.buildpacks.lifecycle.cache.metadata">>

TrimPrefix(s, prefix) ==
    IF Len(s) >= 1 /\ s[1] = prefix THEN SubSeq(s, 2, Len(s)) ELSE s

diffIDPath(diffID) ==
    (IF GOOS = "windows" THEN TrimPrefix(diffID, "sha256:") ELSE diffID)
        \o <<".tar">>

\* Contents of the tar files and streams handed to AddLayerFile / AddLayer.
Tars == {<<"x">>, <<"y">>}

\* platform.CacheMetadata, reduced to the list of layer shas it records.
EmptyMetadata == <<>>
MetaRecords == {<<>>, <<"A">>}

Prefixes(c) == {SubSeq(c, 1, k) : k \in 0..Len(c)}

EncodeUnterminated(m) == <<"{">> \o m

\* json.NewEncoder(file).Encode(metadata): the document and a newline.
Encode(m) == <<"{">> \o m \o <<"}\n">>

\* json.NewDecoder(file).Decode(&metadata): the first JSON value of the
\* file, or an error when there is none (empty or cut-off file).
DecodeOk(c) ==
    /\ Len(c) >= 2
    /\ c[1] = "{"
    /\ \E k \in 2..Len(c) : c[k] = "}\n" /\ \A j \in 2..(k-1) : c[j] # "}\n"

Decode(c) ==
    LET k == CHOOSE k \in 2..Len(c) :
                 c[k] = "}\n" /\ \A j \in 2..(k-1) : c[j] # "}\n"
    IN  SubSeq(c, 2, k - 1)

----------------------------------------------------------------------------
(* File system primitives on F = [dirs, links] *)

NoDir == [exists |-> FALSE, files |-> <<>>]
EmptyDir == [exists |-> TRUE, files |-> <<>>]

Disk == [dirs |-> dirs, links |-> links]

Has(F, p, n) == F.dirs[p].exists /\ n \in DOMAIN F.dirs[p].files

Without(f, S) == [x \in (DOMAIN f) \ S |-> f[x]]
With(f, n, c) == [x \in (DOMAIN f) \cup {n} |-> IF x = n THEN c ELSE f[x]]

\* The directories whose entry n is the inode of p/n.
Block(F, n, p) ==
    LET S == {l \in F.links : l[1] = n /\ p \in l[2]}
    IN  IF S = {} THEN {p} ELSE (CHOOSE l \in S : TRUE)[2]

\* p/n gets content c: a new file, or a write to the inode already there.
SetContent(F, p, n, c) ==
    LET B == IF Has(F, p, n) THEN Block(F, n, p) ELSE {p}
    IN  [F EXCEPT !.dirs = [q \in Paths |->
            IF q \in B
            THEN [exists |-> TRUE, files |-> With(F.dirs[q].files, n, c)]
            ELSE F.dirs[q]]]

\* unlink the names S of directory p
RemoveFiles(F, p, S) ==
    [dirs  |-> [F.dirs EXCEPT ![p].files = Without(@, S)],
     links |-> {l \in {IF l[1] \in S THEN <<l[1], l[2] \ {p}>> ELSE l
                         : l \in F.links} : Cardinality(l[2]) >= 2}]

RemoveDir(F, p) ==
    LET G == RemoveFiles(F, p, DOMAIN F.dirs[p].files)
    IN  [G EXCEPT !.dirs[p] = NoDir]

\* rename(2) on directories: the source must exist, an existing target
\* must be an empty directory.
RenameOk(F, old, new) ==
    /\ F.dirs[old].exists
    /\ (F.dirs[new].exists => DOMAIN F.dirs[new].files = {})

Rename(F, old, new) ==
    [dirs  |-> [F.dirs EXCEPT ![new] = F.dirs[old], ![old] = NoDir],
     links |-> {<<l[1], {IF q = old THEN new ELSE q : q \in l[2]}>>
                  : l \in F.links}]

CopyInsteadOfLink(F, p1, p2, n) ==
    [F EXCEPT !.dirs[p2].files = With(@, n, F.dirs[p1].files[n])]

\* link(2): the source must exist, the target must not.
LinkFile(F, p1, p2, n) ==
    LET B == Block(F, n, p1)
    IN  [dirs  |-> [F.dirs EXCEPT ![p2].files =
                        With(@, n, F.dirs[p1].files[n])],
         links |-> {l \in F.links : ~(l[1] = n /\ p1 \in l[2])}
                       \cup {<<n, B \cup {p2}>>}]

\* os.RemoveAll(p): nil when p is gone afterwards (or was never there);
\* an error leaves the directory with any subset of its files.
RemoveAllOutcomes(F, p) ==
    {[F |-> RemoveDir(F, p), ok |-> TRUE]} \cup
    (IF F.dirs[p].exists
     THEN {[F |-> RemoveFiles(F, p, S), ok |-> FALSE]
             : S \in SUBSET DOMAIN F.dirs[p].files}
     ELSE {})

\* os.MkdirAll(p): nil when p exists afterwards.
MkdirAllOutcomes(F, p) ==
    {[F |-> IF F.dirs[p].exists THEN F ELSE [F EXCEPT !.dirs[p] = EmptyDir],
      ok |-> TRUE]} \cup
    (IF F.dirs[p].exists THEN {} ELSE {[F |-> F, ok |-> FALSE]})

\* io.Copy(dst, src) / Write: everything, or an error after a part of it.
CopyOutcomes(c) ==
    {[content |-> c, ok |-> TRUE]} \cup
    {[content |-> x, ok |-> FALSE] : x \in Prefixes(c) \ {c}}


----------------------------------------------------------------------------
(* Part I: VolumeCache *)

errCacheCommitted == "cache cannot be modified after commit"

Ret(op, arg, err, did) == [op |-> op, arg |-> arg, err |-> err, did |-> did]

NoMeta == [written |-> FALSE, m |-> EmptyMetadata]
NoCommit == [called |-> FALSE, promoted |-> FALSE,
             staging |-> <<>>, committed |-> <<>>]

Live == pc = "idle"
InCommit == pc \in {"promote", "rollback", "defer"}

setupStagingDirKeepsFiles(F) == MkdirAllOutcomes(F, stagingDir)

setupStagingDir(F) ==
    LET R == RemoveAllOutcomes(F, stagingDir)
    IN  {[F |-> r.F, ok |-> FALSE] : r \in {r \in R : ~r.ok}} \cup
        UNION {MkdirAllOutcomes(r.F, stagingDir) : r \in {r \in R : r.ok}}

NewVolumeCacheRestoresBackup(F) ==
    LET G  == IF F.dirs[backupDir].exists /\ ~F.dirs[committedDir].exists
              THEN Rename(F, backupDir, committedDir) ELSE F
        S  == setupStagingDir(G)
        S1 == {s \in S : s.ok}
        R  == UNION {RemoveAllOutcomes(s.F, backupDir) : s \in S1}
        R1 == {r \in R : r.ok}
        M  == UNION {MkdirAllOutcomes(r.F, committedDir) : r \in R1}
    IN  {[F |-> s.F, err |-> "initializing staging directory"]
            : s \in {s \in S : ~s.ok}} \cup
        {[F |-> r.F, err |-> "removing backup directory"]
            : r \in {r \in R : ~r.ok}} \cup
        {[F |-> m.F, err |-> IF m.ok THEN ""
                             ELSE "creating committed directory"] : m \in M}

NewVolumeCacheKeepsBackup(F) ==
    LET S  == setupStagingDir(F)
        S1 == {s \in S : s.ok}
        M  == UNION {MkdirAllOutcomes(s.F, committedDir) : s \in S1}
    IN  {[F |-> s.F, err |-> "initializing staging directory"]
            : s \in {s \in S : ~s.ok}} \cup
        {[F |-> m.F, err |-> IF m.ok THEN ""
                             ELSE "creating committed directory"] : m \in M}

\* every way NewVolumeCache can end on disk F: the disk it leaves and the
\* error it returns ("" for nil)
NewVolumeCacheOutcomes(F) ==
    LET S  == setupStagingDir(F)
        S1 == {s \in S : s.ok}
        R  == UNION {RemoveAllOutcomes(s.F, backupDir) : s \in S1}
        R1 == {r \in R : r.ok}
        M  == UNION {MkdirAllOutcomes(r.F, committedDir) : r \in R1}
    IN  {[F |-> s.F, err |-> "initializing staging directory"]
            : s \in {s \in S : ~s.ok}} \cup
        {[F |-> r.F, err |-> "removing backup directory"]
            : r \in {r \in R : ~r.ok}} \cup
        {[F |-> m.F, err |-> IF m.ok THEN ""
                             ELSE "creating committed directory"] : m \in M}

\* where in Commit the process died, when the construction is the first
\* step after its death
AfterCrash == IF last.op = "Crash" THEN <<last.did>> ELSE <<>>

NewVolumeCache ==
    /\ pc \in {"none", "idle"}
    /\ sessions < MaxSessions
    /\ \E o \in NewVolumeCacheOutcomes(Disk) :
          /\ dirs' = o.F.dirs
          /\ links' = o.F.links
          /\ pc' = IF o.err = "" THEN "idle" ELSE "none"
          /\ last' = Ret("NewVolumeCache", AfterCrash, o.err,
                         IF \/ DOMAIN dirs[stagingDir].files # {}
                            \/ dirs[backupDir].exists
                         THEN "found stale" ELSE "found clean")
    /\ sessions' = sessions + 1
    /\ committed' = FALSE
    /\ pending' = ""
    /\ put' = {}
    /\ atCommit' = NoCommit
    /\ sessMeta' = NoMeta
    /\ UNCHANGED <<lastGen, ex>>

\* a call on a committed instance
Refused(op, arg) ==
    /\ last' = Ret(op, arg, errCacheCommitted, "nothing")
    /\ UNCHANGED <<dirs, links, pc, committed, pending, sessions, put,
                   atCommit, lastGen, sessMeta, ex>>

SetMetadata(metadata) ==
    /\ Live
    /\ IF committed THEN Refused("SetMetadata", metadata)
       ELSE /\ IF ~dirs[stagingDir].exists
               THEN /\ last' = Ret("SetMetadata", metadata,
                                   "creating metadata file", "nothing")
                    /\ UNCHANGED <<dirs, links, put, sessMeta>>
               ELSE \E w \in CopyOutcomes(Encode(metadata)) :
                    LET G == SetContent(Disk, stagingDir, MetadataLabel,
                                        w.content)
                    IN  /\ dirs' = G.dirs
                        /\ links' = G.links
                        /\ last' = Ret("SetMetadata", metadata,
                                       IF w.ok THEN ""
                                       ELSE "marshalling metadata", "wrote")
                        /\ put' = IF w.ok THEN put \cup {MetadataLabel}
                                  ELSE put \ {MetadataLabel}
                        /\ sessMeta' = [written |-> w.ok,
                                        m |-> IF w.ok THEN metadata
                                              ELSE EmptyMetadata]
            /\ UNCHANGED <<pc, committed, pending, sessions, atCommit,
                           lastGen, ex>>

\* AddLayerFile, line 103: os.Stat(layerTar) returns no error
NeverStaged(F, layerTar) == FALSE

AlreadyStaged(F, layerTar) == Has(F, stagingDir, layerTar)

\* tar is the content of the file at tarPath; copyFile(from, to) inlined
AddLayerFile(tar, diffID) ==
    LET layerTar == diffIDPath(diffID)
    IN
    /\ Live
    /\ IF committed THEN Refused("AddLayerFile", diffID)
       ELSE /\ IF AlreadyStaged(Disk, layerTar)
               THEN /\ last' = Ret("AddLayerFile", diffID, "", "nothing")
                    /\ UNCHANGED <<dirs, links, put>>
               ELSE IF ~dirs[stagingDir].exists
               THEN /\ last' = Ret("AddLayerFile", diffID, "caching layer",
                                   "nothing")
                    /\ UNCHANGED <<dirs, links, put>>
               ELSE \E w \in CopyOutcomes(tar) :
                    LET G == SetContent(Disk, stagingDir, layerTar, w.content)
                    IN  /\ dirs' = G.dirs
                        /\ links' = G.links
                        /\ last' = Ret("AddLayerFile", diffID,
                                       IF w.ok THEN "" ELSE "caching layer",
                                       "wrote")
                        /\ put' = IF w.ok THEN put \cup {layerTar}
                                  ELSE put \ {layerTar}
            /\ UNCHANGED <<pc, committed, pending, sessions, atCommit,
                           lastGen, sessMeta, ex>>

CreateUnlessStaged(F, layerTar, content) ==
    IF Has(F, stagingDir, layerTar) THEN F
    ELSE SetContent(F, stagingDir, layerTar, content)

\* AddLayer, lines 119 and 125: os.Create truncates the file when it is
\* there, io.Copy writes what it has read of the stream
CreateAndCopy(F, layerTar, content) ==
    SetContent(F, stagingDir, layerTar, content)

\* rc is the content the stream delivers
AddLayer(rc, diffID) ==
    LET layerTar == diffIDPath(diffID)
    IN
    /\ Live
    /\ IF committed THEN Refused("AddLayer", diffID)
       ELSE /\ IF ~dirs[stagingDir].exists
               THEN /\ last' = Ret("AddLayer", diffID,
                                   "create layer file in cache", "nothing")
                    /\ UNCHANGED <<dirs, links, put>>
               ELSE \E w \in CopyOutcomes(rc) :
                    LET G == CreateAndCopy(Disk, layerTar, w.content)
                    IN  /\ dirs' = G.dirs
                        /\ links' = G.links
                        /\ last' = Ret("AddLayer", <<diffID, rc>>,
                                       IF w.ok THEN ""
                                       ELSE "copying layer to tar file",
                                       IF Has(Disk, stagingDir, layerTar)
                                       THEN "truncated" ELSE "created")
                        /\ put' = IF w.ok THEN put \cup {layerTar}
                                  ELSE put \ {layerTar}
            /\ UNCHANGED <<pc, committed, pending, sessions, atCommit,
                           lastGen, sessMeta, ex>>

\* os.Link(committed/<d>.tar, staging/<d>.tar): ENOENT when the source is
\* missing, else EEXIST when the target exists; only IsExist is tolerated.
ReuseLayer(diffID) ==
    LET layerTar == diffIDPath(diffID)
    IN
    /\ Live
    /\ IF committed THEN Refused("ReuseLayer", diffID)
       ELSE /\ IF \/ ~Has(Disk, committedDir, layerTar)
                  \/ ~dirs[stagingDir].exists
               THEN /\ last' = Ret("ReuseLayer", diffID, "reusing layer",
                                   "nothing")
                    /\ UNCHANGED <<dirs, links, put>>
               ELSE IF Has(Disk, stagingDir, layerTar)
               THEN /\ last' = Ret("ReuseLayer", diffID, "", "nothing")
                    /\ UNCHANGED <<dirs, links, put>>
               ELSE LET G == LinkFile(Disk, committedDir, stagingDir,
                                      layerTar)
                    IN  /\ dirs' = G.dirs
                        /\ links' = G.links
                        /\ last' = Ret("ReuseLayer", diffID, "", "linked")
                        /\ put' = put \cup {layerTar}
            /\ UNCHANGED <<pc, committed, pending, sessions, atCommit,
                           lastGen, sessMeta, ex>>

\* The read operations change nothing: each is the function of the disk it
\* computes, <<value, error>> (openOk: whether os.Open is served).
RetrieveMetadataReportsDecode(F, openOk) ==
    IF ~Has(F, committedDir, MetadataLabel) THEN <<EmptyMetadata, "">>
    ELSE IF ~openOk THEN <<EmptyMetadata, "opening metadata file">>
    ELSE IF ~DecodeOk(F.dirs[committedDir].files[MetadataLabel])
    THEN <<EmptyMetadata, "decoding metadata file">>
    ELSE <<Decode(F.dirs[committedDir].files[MetadataLabel]), "">>

RetrieveMetadata(F, openOk) ==
    IF ~Has(F, committedDir, MetadataLabel) THEN <<EmptyMetadata, "">>
    ELSE IF ~openOk THEN <<EmptyMetadata, "opening metadata file">>
    ELSE IF ~DecodeOk(F.dirs[committedDir].files[MetadataLabel])
    THEN <<EmptyMetadata, "">>
    ELSE <<Decode(F.dirs[committedDir].files[MetadataLabel]), "">>

HasLayerSeesStaging(F, diffID) ==
    IF /\ ~Has(F, committedDir, diffIDPath(diffID))
       /\ ~Has(F, stagingDir, diffIDPath(diffID))
    THEN <<FALSE, "">>
    ELSE <<TRUE, "">>

HasLayer(F, diffID) ==
    IF ~Has(F, committedDir, diffIDPath(diffID)) THEN <<FALSE, "">>
    ELSE <<TRUE, "">>

RetrieveLayerFile(F, diffID) ==
    IF ~Has(F, committedDir, diffIDPath(diffID))
    THEN <<<<>>, "layer not found">>
    ELSE <<<<committedDir>> \o diffIDPath(diffID), "">>

\* the stream RetrieveLayer returns is given by the content it will deliver
RetrieveLayer(F, diffID, openOk) ==
    IF RetrieveLayerFile(F, diffID)[2] # ""
    THEN <<<<>>, RetrieveLayerFile(F, diffID)[2]>>
    ELSE IF ~openOk THEN <<<<>>, "opening layer">>
    ELSE <<F.dirs[committedDir].files[diffIDPath(diffID)], "">>

\* the three renames of Commit
BackupRename(F) == Rename(F, committedDir, backupDir)

PromoteKeepsStaging(F) ==
    [Rename(F, stagingDir, committedDir) EXCEPT !.dirs[stagingDir] = EmptyDir]

PromoteRename(F) == Rename(F, stagingDir, committedDir)

RollbackRename(F) == Rename(F, backupDir, committedDir)

\* Commit, line 178: c.committed = true, set before the renames and so
\* whatever becomes of them
FlagOnlyWhenRenamed(renamed) == renamed

FlagAfterCommit(renamed) == TRUE

\* Commit, lines 175-181: the committed check, the flag, the backup rename
CommitBackup ==
    /\ Live
    /\ IF committed THEN Refused("Commit", <<>>)
       ELSE /\ atCommit' = [called    |-> TRUE,
                            promoted  |-> FALSE,
                            staging   |-> dirs[stagingDir].files,
                            committed |-> dirs[committedDir].files]
            /\ \E renameOk \in BOOLEAN :
                 IF renameOk /\ RenameOk(Disk, committedDir, backupDir)
                 THEN LET G == BackupRename(Disk)
                      IN  /\ dirs' = G.dirs
                          /\ links' = G.links
                          /\ pc' = "promote"
                          /\ committed' = FlagAfterCommit(TRUE)
                          /\ last' = Ret("Commit", <<>>, "(running)",
                                         "renamed")
                          /\ lastGen' = [lastGen EXCEPT !.meta = NoMeta]
                 ELSE /\ committed' = FlagAfterCommit(FALSE)
                      /\ last' = Ret("Commit", <<>>, "backing up cache",
                                     "nothing")
                      /\ UNCHANGED <<dirs, links, pc, lastGen>>
            /\ UNCHANGED <<pending, sessions, put, sessMeta, ex>>

\* Commit, line 184: the promote rename (the deferred removal is armed)
CommitPromote ==
    /\ pc = "promote"
    /\ \E renameOk \in BOOLEAN :
         IF renameOk /\ RenameOk(Disk, stagingDir, committedDir)
         THEN LET G == PromoteRename(Disk)
              IN  /\ dirs' = G.dirs
                  /\ links' = G.links
                  /\ pc' = "defer"
                  /\ pending' = ""
                  /\ atCommit' = [atCommit EXCEPT !.promoted = TRUE]
                  /\ lastGen' = [files |-> atCommit.staging,
                                 meta |-> sessMeta, crashed |-> FALSE]
                  /\ last' = Ret("Commit", <<>>, "(running)", "renamed")
         ELSE /\ pc' = "rollback"
              /\ last' = Ret("Commit", <<>>, "(running)", "nothing")
              /\ UNCHANGED <<dirs, links, pending, atCommit, lastGen>>
    /\ UNCHANGED <<committed, sessions, put, sessMeta, ex>>

RollbackErrorAlways(renamed) == "rolling back cache"

\* Commit, lines 185-188: the error returned after a failed promote
RollbackResult(renamed) ==
    IF renamed THEN "committing cache" ELSE "rolling back cache"

\* Commit, lines 185-188: the rollback rename
CommitRollback ==
    /\ pc = "rollback"
    /\ \E renameOk \in BOOLEAN :
         IF renameOk /\ RenameOk(Disk, backupDir, committedDir)
         THEN LET G == RollbackRename(Disk)
              IN  /\ dirs' = G.dirs
                  /\ links' = G.links
                  /\ pending' = RollbackResult(TRUE)
                  /\ last' = Ret("Commit", <<>>, "(running)", "renamed")
         ELSE /\ pending' = RollbackResult(FALSE)
              /\ last' = Ret("Commit", <<>>, "(running)", "nothing")
              /\ UNCHANGED <<dirs, links>>
    /\ pc' = "defer"
    /\ UNCHANGED <<committed, sessions, put, atCommit, lastGen, sessMeta, ex>>

\* Commit, line 182: defer os.RemoveAll(c.backupDir), run on every return
\* after the backup rename; its error is dropped
CommitDefer ==
    /\ pc = "defer"
    /\ \E o \in RemoveAllOutcomes(Disk, backupDir) :
          /\ dirs' = o.F.dirs
          /\ links' = o.F.links
          /\ last' = Ret("Commit", <<>>, pending,
                         IF o.ok THEN "removed" ELSE "remove failed")
    /\ pc' = "idle"
    /\ pending' = ""
    /\ UNCHANGED <<committed, sessions, put, atCommit, lastGen, sessMeta, ex>>

\* the process dies between two system calls of Commit
Crash ==
    /\ InCommit
    /\ pc' = "none"
    /\ pending' = ""
    /\ last' = Ret("Crash", <<>>, "", pc)
    /\ lastGen' = [lastGen EXCEPT !.crashed = TRUE]
    /\ UNCHANGED <<dirs, links, committed, sessions, put, atCommit,
                   sessMeta, ex>>

----------------------------------------------------------------------------
(* Part II: Exporter.  ex is the state of one Export call: its position   *)
(* pc, the inputs it has read so far, its locals, and what it has done on  *)
(* the working image.  An input is drawn where Export first reads it.      *)
(* Every call on a collaborator (image, layer factory, file system) may    *)
(* return an error.                                                        *)
(*                                                                         *)
(* ex.calls is the sequence of calls issued on the working image.  A layer *)
(* call (AddLayerWithDiffID or ReuseLayer) is entered as "layer" with the  *)
(* layer it is for; which of the two methods was called, and with what     *)
(* arguments, is kept for the most recent call in ex.lastCall.             *)
(* Digests of the exporter are strings "sha256:<hex>", never empty; the    *)
(* empty string is the sha of a layer the previous image does not have.    *)

\* e.PlatformAPI: the version 0.n is the number n
PlatformAPIs == {3, 4, 5, 6}

AtLeast(v, w) == v >= w

LessThan(v, w) == v < w

supportsMulticallFromApi06(api) == AtLeast(api, 6)

supportsMulticallLauncher(api) == AtLeast(api, 4)

supportsManifestSize(api) == AtLeast(api, 6)

EnvLayersDir == "CNB_LAYERS_DIR"
EnvAppDir == "CNB_APP_DIR"
EnvPlatformAPI == "CNB_PLATFORM_API"
EnvDeprecationMode == "CNB_DEPRECATION_MODE"
EnvProcessType == "CNB_PROCESS_TYPE"
DeprecationModeQuiet == "quiet"

EnvNames == <<EnvLayersDir, EnvAppDir, EnvPlatformAPI, EnvDeprecationMode>>

EnvValues(api) == <<"opts.LayersDir", "opts.AppDir", api, DeprecationModeQuiet>>

ProcessDir == "/cnb/process"
LifecycleDir == "/cnb/lifecycle"

\* values Env("PATH") may return for the working image
ImagePaths == {"", "/usr/bin"}

\* strings.Join([]string{ProcessDir, LifecycleDir, path}, ":"), line 355
JoinPath(path) == <<ProcessDir, ":", LifecycleDir, ":", path>>

LayerMetadataLabel == "io.buildpacks.lifecycle.metadata"
BuildMetadataLabel == "io.buildpacks.build.metadata"
ProjectMetadataLabel == "io.buildpacks.project.metadata"

FixedLabels == <<LayerMetadataLabel, BuildMetadataLabel, ProjectMetadataLabel>>

LauncherPath == <<"/cnb/lifecycle/launcher">>

ProcessPath(type) == <<"/cnb/process/", type>>

\* buildMD.Processes (by process type), opts.DefaultProcessType,
\* buildMD.BuildpackDefaultProcessType
ProcessLists == {<<>>, <<"web">>, <<"web", "worker">>}
UserDefaults == {"", "web", "bogus"}
BuildpackDefaults == {"", "worker"}

\* digests the layer factory computes, shas the metadata of the previous
\* image records, and the previous image's app layers
LayerDigests == {"sha256:new"}
FactoryDigests == {"sha256:new", "sha256:other"}
OrigSHAs == {"sha256:new", "sha256:old"}
PreviousSHAs == {""} \cup OrigSHAs
NoEntry == [present |-> FALSE, sha |-> ""]

OrigEntries ==
    {NoEntry} \cup
    {[present |-> TRUE, sha |-> s] : s \in OrigSHAs}

\* the layer a call is for
Src(kind, i, j) == [kind |-> kind, i |-> i, j |-> j]

NoSrc == Src("", 0, 0)

TarPath(of) == [tarOf |-> of]

EmptyLayersMetadata ==
    [buildpacks |-> <<>>, app |-> <<>>,
     launcher |-> "", config |-> "", processTypes |-> ""]

\* what Export has read of a launch layer without local contents: cache of
\* its metadata and, when it came to look it up, its entry in
\* opts.OrigMetadata
NotReuseOnly == [reuseOnly |-> FALSE, cache |-> FALSE, orig |-> NoEntry]

\* dataformat.ExportReport{}
EmptyReport == [build |-> "", image |-> "", manifestSize |-> FALSE]

ExIdle ==
    [pc |-> "off", err |-> "", api |-> 0,
     nBuildpacks |-> 0, bp |-> 0, nLayers |-> 0, layer |-> 0,
     malformed |-> FALSE, bpLayers |-> <<>>,
     origApp |-> <<>>, nSlices |-> 0, slice |-> 0, reused |-> 0,
     added |-> 0,
     processes |-> <<>>, userDefault |-> "", label |-> 0, env |-> 0,
     path |-> "", buildpackDefault |-> "", entrypoint |-> <<>>,
     report |-> EmptyReport, fsLayer |-> NotReuseOnly,
     calls |-> <<>>, lastCall |-> [fn |-> "", args |-> <<>>, sel |-> <<>>],
     meta |-> EmptyLayersMetadata,
     seen |-> [launch |-> <<>>, slices |-> 0]]

\* a call on opts.WorkingImage
ImageCall(e, entry, of, fn, args) ==
    [e EXCEPT !.calls = Append(@, [fn |-> entry, of |-> of]),
              !.lastCall = [fn |-> fn, args |-> args, sel |-> <<>>]]

FailKeepsGoing(e, err) == [e EXCEPT !.err = err]

\* Export returns dataformat.ExportReport{} and the error
Fail(e, err) ==
    [e EXCEPT !.pc = "failed", !.err = err, !.report = EmptyReport]

FindProcessTypeInAnyList(processes, type) == Len(processes) > 0

\* launch.Metadata.FindProcessType: ok
FindProcessType(processes, type) ==
    \E k \in 1..Len(processes) : processes[k] = type

\* fmt.Errorf("tried to set %s to default but it doesn't exist", type)
NoDefaultError(type) ==
    <<"tried to set ", type, " to default but it doesn't exist">>

entrypointOneProcessAnyApi(api, processes, userDefault, buildpackDefault) ==
    IF ~supportsMulticallLauncher(api) THEN <<LauncherPath, <<>>>>
    ELSE IF userDefault = "" /\ Len(processes) = 1
    THEN <<ProcessPath(processes[1]), <<>>>>
    ELSE IF userDefault # ""
    THEN IF ~FindProcessType(processes, userDefault)
         THEN IF LessThan(api, 6) THEN <<LauncherPath, <<>>>>
              ELSE <<<<>>, NoDefaultError(userDefault)>>
         ELSE <<ProcessPath(userDefault), <<>>>>
    ELSE IF buildpackDefault = "" THEN <<LauncherPath, <<>>>>
    ELSE <<ProcessPath(buildpackDefault), <<>>>>

\* <<entrypoint, error>>, the error <<>> for nil
entrypoint(api, processes, userDefault, buildpackDefault) ==
    IF ~supportsMulticallLauncher(api) THEN <<LauncherPath, <<>>>>
    ELSE IF userDefault = "" /\ LessThan(api, 6) /\ Len(processes) = 1
    THEN <<ProcessPath(processes[1]), <<>>>>
    ELSE IF userDefault # ""
    THEN IF ~FindProcessType(processes, userDefault)
         THEN IF LessThan(api, 6) THEN <<LauncherPath, <<>>>>
              ELSE <<<<>>, NoDefaultError(userDefault)>>
         ELSE <<ProcessPath(userDefault), <<>>>>
    ELSE IF buildpackDefault = "" THEN <<LauncherPath, <<>>>>
    ELSE <<ProcessPath(buildpackDefault), <<>>>>

\* a layer call issued by addOrReuseLayer: lastCall.sel keeps the digest
\* and the previous sha the choice was made from
SelectorCall(e, of, fn, args, digest, previousSHA) ==
    [ImageCall(e, "layer", of, fn, args)
        EXCEPT !.lastCall.sel = <<digest, previousSHA>>]

addOrReuseLayerAlwaysAdds(e, of, digest, previousSHA, dirOk, callOk) ==
    IF ~dirOk THEN [ex |-> e, sha |-> "", err |-> "creating layer"]
    ELSE [ex  |-> SelectorCall(e, of, "AddLayerWithDiffID",
                               <<TarPath(of), digest>>, digest, previousSHA),
          sha |-> digest,
          err |-> IF callOk THEN "" ELSE "AddLayerWithDiffID"]

addOrReuseLayerNoPriorMatches(e, of, digest, previousSHA, dirOk, callOk) ==
    IF ~dirOk THEN [ex |-> e, sha |-> "", err |-> "creating layer"]
    ELSE IF digest = previousSHA \/ previousSHA = ""
    THEN [ex  |-> SelectorCall(e, of, "ReuseLayer", <<previousSHA>>,
                               digest, previousSHA),
          sha |-> digest,
          err |-> IF callOk THEN "" ELSE "ReuseLayer"]
    ELSE [ex  |-> SelectorCall(e, of, "AddLayerWithDiffID",
                               <<TarPath(of), digest>>, digest, previousSHA),
          sha |-> digest,
          err |-> IF callOk THEN "" ELSE "AddLayerWithDiffID"]

\* digest: the digest of the layer DirLayer materializes (line 448).
\* The result: Export's state after the call, the sha returned, the error.
addOrReuseLayer(e, of, digest, previousSHA, dirOk, callOk) ==
    IF ~dirOk THEN [ex |-> e, sha |-> "", err |-> "creating layer"]
    ELSE IF digest = previousSHA
    THEN [ex  |-> SelectorCall(e, of, "ReuseLayer", <<previousSHA>>,
                               digest, previousSHA),
          sha |-> digest,
          err |-> IF callOk THEN "" ELSE "ReuseLayer"]
    ELSE [ex  |-> SelectorCall(e, of, "AddLayerWithDiffID",
                               <<TarPath(of), digest>>, digest, previousSHA),
          sha |-> digest,
          err |-> IF callOk THEN "" ELSE "AddLayerWithDiffID"]

\* Export, lines 76-101
ExportStart(api, buildpacks) ==
    /\ ex.pc = "off"
    /\ LET e0 == [ExIdle EXCEPT !.api = api, !.nBuildpacks = buildpacks]
           e1 == ImageCall(e0, "TopLayer", NoSrc, "TopLayer", <<>>)
       IN  \E outcome \in {"", "layers dir absolute path",
                           "app dir absolute path",
                           "get run image top layer SHA",
                           "read build metadata"} :
             ex' = IF outcome = ""
                   THEN [e1 EXCEPT !.pc = IF buildpacks = 0 THEN "slices"
                                          ELSE "buildpack",
                                   !.bp = 1]
                   ELSE IF outcome \in {"layers dir absolute path",
                                        "app dir absolute path"}
                   THEN Fail(e0, outcome)
                   ELSE Fail(e1, outcome)
    /\ UNCHANGED cacheVars

\* addBuildpackLayers, lines 164-175: the layers directory of e.Buildpacks[bp]
\* with launchLayers launch layers and, or not, malformed layers
ReadBuildpackLayersDir ==
    /\ ex.pc = "buildpack"
    /\ \/ ex' = Fail(ex, "reading layers for buildpack")
       \/ \E launchLayers \in 0..MaxLayers, malformedLayers \in BOOLEAN :
             ex' = [ex EXCEPT !.nLayers = launchLayers,
                              !.malformed = malformedLayers,
                              !.layer = 1,
                              !.bpLayers = <<>>,
                              !.seen.launch = Append(@, launchLayers),
                              !.pc = IF launchLayers = 0 THEN "bpdone"
                                     ELSE "layer"]
    /\ UNCHANGED cacheVars

LayerRecordedWithoutSha(e, sha) ==
    [e EXCEPT !.bpLayers = Append(@, ""),
              !.layer = @ + 1,
              !.pc = IF e.layer = e.nLayers THEN "bpdone" ELSE "layer"]

\* bpMD.Layers[fsLayer.name()] = lmd, line 208, and the next iteration
LayerRecorded(e, sha) ==
    [e EXCEPT !.bpLayers = Append(@, sha),
              !.layer = @ + 1,
              !.pc = IF e.layer = e.nLayers THEN "bpdone" ELSE "layer"]

ReuseOnlyLayerIgnoresCache(e, of, cache, orig, callOk) ==
    LET e0 == [e EXCEPT !.fsLayer = [reuseOnly |-> TRUE, cache |-> cache,
                                     orig |-> orig]]
        e1 == ImageCall(e0, "layer", of, "ReuseLayer", <<orig.sha>>)
    IN  IF ~orig.present
        THEN Fail(e0, "cannot reuse, previous image has no metadata for layer")
        ELSE IF ~callOk THEN Fail(e1, "reusing layer")
        ELSE LayerRecorded(e1, orig.sha)

\* addBuildpackLayers, lines 192-207: a launch layer without local
\* contents; orig is read only when cache is false
ReuseOnlyLayer(e, of, cache, orig, callOk) ==
    LET e0 == [e EXCEPT !.fsLayer = [reuseOnly |-> TRUE, cache |-> cache,
                                     orig |-> orig]]
        e1 == ImageCall(e0, "layer", of, "ReuseLayer", <<orig.sha>>)
    IN  IF cache
        THEN Fail(e0, "layer is cache=true but has no contents")
        ELSE IF ~orig.present
        THEN Fail(e0, "cannot reuse, previous image has no metadata for layer")
        ELSE IF ~callOk THEN Fail(e1, "reusing layer")
        ELSE LayerRecorded(e1, orig.sha)

\* addBuildpackLayers, lines 175-209: one launch layer.  origEntries: what
\* opts.OrigMetadata may hold for the layer; digests: what the layer
\* factory may compute for it.
LaunchLayer(origEntries, digests) ==
    /\ ex.pc = "layer"
    /\ LET of == Src("buildpack", ex.bp, ex.layer)
       IN
       \/ ex' = Fail([ex EXCEPT !.fsLayer = NotReuseOnly], "reading metadata")
       \* hasLocalContents, lines 183-191
       \/ ex' = Fail([ex EXCEPT !.fsLayer = NotReuseOnly], "creating layer")
       \/ \E orig \in origEntries, digest \in digests,
             dirOk \in BOOLEAN, callOk \in BOOLEAN :
             LET r == addOrReuseLayer([ex EXCEPT !.fsLayer = NotReuseOnly],
                                      of, digest, orig.sha, dirOk, callOk)
             IN  ex' = IF r.err # "" THEN Fail(r.ex, r.err)
                       ELSE LayerRecorded(r.ex, r.sha)
       \* no local contents, lines 192-207
       \/ ex' = ReuseOnlyLayer(ex, of, TRUE, NoEntry, TRUE)
       \/ \E orig \in origEntries, callOk \in BOOLEAN :
             ex' = ReuseOnlyLayer(ex, of, FALSE, orig, callOk)
    /\ UNCHANGED cacheVars

BuildpackDoneSkipsRecord(e) ==
    IF e.malformed
    THEN Fail(e, "failed to parse metadata for layers")
    ELSE [e EXCEPT !.meta.buildpacks =
                      Append(@, [id |-> e.bp, layers |-> e.bpLayers]),
                   !.bp = @ + 1,
                   !.fsLayer = NotReuseOnly,
                   !.nLayers = 0,
                   !.layer = 0,
                   !.bpLayers = <<>>,
                   !.pc = IF e.bp = e.nBuildpacks
                          THEN "slices" ELSE "buildpack"]

\* addBuildpackLayers, lines 210-219: the buildpack's record is appended,
\* then its malformed layers end the export
BuildpackDone(e) ==
    LET e1 == [e EXCEPT !.meta.buildpacks =
                      Append(@, [id |-> e.bp, layers |-> e.bpLayers])]
    IN  IF e.malformed
        THEN Fail(e1, "failed to parse metadata for layers")
        ELSE [e1 EXCEPT !.bp = @ + 1,
                        !.fsLayer = NotReuseOnly,
                        !.nLayers = 0,
                        !.layer = 0,
                        !.bpLayers = <<>>,
                        !.pc = IF e.bp = e.nBuildpacks
                               THEN "slices" ELSE "buildpack"]

\* addBuildpackLayers, lines 210-219; the locals of the iteration end here
AppendBuildpack ==
    /\ ex.pc = "bpdone"
    /\ ex' = BuildpackDone(ex)
    /\ UNCHANGED cacheVars

\* addAppLayers returns nil: its locals, and opts.OrigMetadata.App which
\* only it reads, are not read again
AppLayersAdded(e) ==
    [e EXCEPT !.origApp = <<>>, !.nSlices = 0, !.slice = 0, !.reused = 0,
              !.added = 0, !.pc = "launcher"]

\* addAppLayers, lines 249-254.  origApps: what opts.OrigMetadata.App may be
SliceLayers(origApps) ==
    /\ ex.pc = "slices"
    /\ \/ ex' = Fail(ex, "exporting app layers: creating app layers")
       \/ \E n \in 0..MaxSlices, origApp \in origApps :
             ex' = IF n = 0 THEN AppLayersAdded([ex EXCEPT !.seen.slices = 0])
                   ELSE [ex EXCEPT !.origApp = origApp,
                                   !.nSlices = n,
                                   !.slice = 1,
                                   !.reused = 0,
                                   !.added = 0,
                                   !.seen.slices = n,
                                   !.pc = "slice"]
    /\ UNCHANGED cacheVars

FoundFirstOnly(App, digest) == Len(App) > 0 /\ App[1] = digest

\* addAppLayers, lines 258-264: some entry of opts.OrigMetadata.App has the
\* slice's digest
Found(App, digest) == \E k \in 1..Len(App) : App[k] = digest

\* addAppLayers, lines 255-285: one slice.  digests: what the layer factory
\* may compute for it.  added counts the AddLayerWithDiffID calls of the
\* loop as numberOfReusedLayers counts its ReuseLayer calls.
AppSlice(digests) ==
    /\ ex.pc = "slice"
    /\ \E digest \in digests, callOk \in BOOLEAN :
          LET of == Src("slice", ex.slice, 0)
              e1 == IF Found(ex.origApp, digest)
                    THEN [ImageCall(ex, "layer", of, "ReuseLayer",
                                    <<digest>>)
                            EXCEPT !.reused = @ + 1]
                    ELSE [ImageCall(ex, "layer", of, "AddLayerWithDiffID",
                                    <<TarPath(of), digest>>)
                            EXCEPT !.added = @ + 1]
              e2 == [e1 EXCEPT !.meta.app = Append(@, digest),
                               !.slice = @ + 1]
          IN  ex' = IF ~callOk THEN Fail(e1, "exporting app layers")
                    ELSE IF ex.slice = ex.nSlices THEN AppLayersAdded(e2)
                    ELSE e2
    /\ UNCHANGED cacheVars

\* addLauncherLayers, lines 224-231
LauncherLayer(previousSHAs, digests) ==
    /\ ex.pc = "launcher"
    /\ \/ ex' = Fail(ex, "creating launcher layers")
       \/ \E digest \in digests, previousSHA \in previousSHAs,
             dirOk \in BOOLEAN, callOk \in BOOLEAN :
             LET r == addOrReuseLayer(ex, Src("launcher", 0, 0), digest,
                                      previousSHA, dirOk, callOk)
                 e1 == [r.ex EXCEPT !.meta.launcher = r.sha]
             IN  ex' = IF r.err # ""
                       THEN Fail(e1, "exporting launcher configLayer")
                       ELSE [e1 EXCEPT !.pc = "config"]
    /\ UNCHANGED cacheVars

\* addLauncherLayers, lines 232-239
ConfigLayer(previousSHAs, digests) ==
    /\ ex.pc = "config"
    /\ \/ ex' = Fail(ex, "creating layer")
       \/ \E digest \in digests, previousSHA \in previousSHAs,
             dirOk \in BOOLEAN, callOk \in BOOLEAN :
             LET r == addOrReuseLayer(ex, Src("config", 0, 0), digest,
                                      previousSHA, dirOk, callOk)
                 e1 == [r.ex EXCEPT !.meta.config = r.sha]
             IN  ex' = IF r.err # ""
                       THEN Fail(e1, "exporting config layer")
                       ELSE [e1 EXCEPT !.pc = "processTypes"]
    /\ UNCHANGED cacheVars

\* launcherConfig, lines 408-425, with the processes of buildMD
launcherConfig(previousSHAs, digests) ==
    /\ ex.pc = "processTypes"
    /\ \E processes \in ProcessLists :
          LET e0 == [ex EXCEPT !.processes = processes]
          IN
          IF supportsMulticallLauncher(ex.api) /\ Len(processes) > 0
          THEN \/ ex' = Fail(e0, "creating layer")
               \/ \E digest \in digests, previousSHA \in previousSHAs,
                     dirOk \in BOOLEAN, callOk \in BOOLEAN :
                     LET r == addOrReuseLayer(e0, Src("process-types", 0, 0),
                                   digest, previousSHA, dirOk, callOk)
                         e1 == [r.ex EXCEPT !.meta.processTypes = r.sha]
                     IN  ex' = IF r.err # ""
                               THEN Fail(e1, "exporting layer")
                               ELSE [e1 EXCEPT !.pc = "labels", !.label = 1]
          ELSE ex' = [e0 EXCEPT !.pc = "labels", !.label = 1]
    /\ UNCHANGED cacheVars

\* setLabels, lines 288-327: one SetLabel call; the three fixed labels,
\* then the labels of buildMD.Labels.  meta is marshalled into the value of
\* the first label (line 289) and not read again.
setLabels ==
    /\ ex.pc = "labels"
    /\ \E callOk \in BOOLEAN, more \in BOOLEAN :
          LET fixed == ex.label <= Len(FixedLabels)
              key == IF fixed THEN FixedLabels[ex.label] ELSE "buildpack label"
              value == IF key = LayerMetadataLabel THEN ex.meta ELSE <<>>
              e1 == [ImageCall(ex, "SetLabel", Src(key, 0, 0), "SetLabel",
                               <<key, value>>)
                        EXCEPT !.meta = EmptyLayersMetadata]
              final == /\ ex.label >= Len(FixedLabels)
                       /\ (~more \/ ex.label = Len(FixedLabels) + MaxLabels)
          IN  ex' = IF ~callOk THEN Fail(e1, "set label")
                    ELSE IF final
                    THEN [e1 EXCEPT !.pc = "env", !.env = 1]
                    ELSE [e1 EXCEPT !.label = @ + 1]
    /\ UNCHANGED cacheVars

\* setEnv, lines 330-348: one of the four SetEnv calls
setEnv ==
    /\ ex.pc = "env"
    /\ \E callOk \in BOOLEAN :
          LET e1 == ImageCall(ex, "SetEnv", Src(EnvNames[ex.env], 0, 0),
                              "SetEnv",
                              <<EnvNames[ex.env], EnvValues(ex.api)[ex.env]>>)
          IN  ex' = IF ~callOk THEN Fail(e1, "set app image env")
                    ELSE IF ex.env = Len(EnvNames)
                    THEN [e1 EXCEPT !.pc = "envPolicy"]
                    ELSE [e1 EXCEPT !.env = @ + 1]
    /\ UNCHANGED cacheVars

\* after setEnv: Export, lines 126 and 133
AfterEnv(e) ==
    [e EXCEPT !.pc = IF AtLeast(e.api, 6) THEN "workdir" ELSE "entrypoint"]

\* setEnv, lines 350-368, with opts.DefaultProcessType: the read of PATH,
\* or the process type
setEnvPolicy ==
    /\ ex.pc = "envPolicy"
    /\ \E userDefault \in UserDefaults, callOk \in BOOLEAN,
          path \in ImagePaths :
          LET e0 == [ex EXCEPT !.userDefault = userDefault]
          IN
          ex' = IF supportsMulticallLauncher(ex.api)
                THEN LET e1 == ImageCall(e0, "Env", Src("PATH", 0, 0),
                                         "Env", <<"PATH">>)
                     IN  IF ~callOk
                         THEN Fail(e1, "failed to get PATH from app image")
                         ELSE [e1 EXCEPT !.pc = "envPath", !.path = path]
                ELSE IF userDefault # ""
                THEN IF ~FindProcessType(ex.processes, userDefault)
                     THEN Fail(e0, "default process type not present in list")
                     ELSE LET e1 == ImageCall(e0, "SetEnv",
                                        Src(EnvProcessType, 0, 0), "SetEnv",
                                        <<EnvProcessType, userDefault>>)
                          IN  IF ~callOk THEN Fail(e1, "set app image env")
                              ELSE AfterEnv(e1)
                ELSE AfterEnv(e0)
    /\ UNCHANGED cacheVars

\* setEnv, lines 355-359
setEnvPath ==
    /\ ex.pc = "envPath"
    /\ \E callOk \in BOOLEAN :
          LET e1 == ImageCall([ex EXCEPT !.path = ""], "SetEnv",
                              Src("PATH", 0, 0), "SetEnv",
                              <<"PATH", JoinPath(ex.path)>>)
          IN  ex' = IF ~callOk THEN Fail(e1, "set app image env PATH")
                    ELSE AfterEnv(e1)
    /\ UNCHANGED cacheVars

\* Export, lines 126-131
setWorkingDir ==
    /\ ex.pc = "workdir"
    /\ \E callOk \in BOOLEAN :
          LET e1 == ImageCall(ex, "SetWorkingDir", NoSrc, "SetWorkingDir",
                              <<>>)
          IN  ex' = IF ~callOk THEN Fail(e1, "setting workdir")
                    ELSE [e1 EXCEPT !.pc = "entrypoint"]
    /\ UNCHANGED cacheVars

\* Export, lines 133-140, with buildMD.BuildpackDefaultProcessType
SetEntrypoint ==
    /\ ex.pc = "entrypoint"
    /\ \E buildpackDefault \in BuildpackDefaults, callOk \in BOOLEAN :
          LET r == entrypoint(ex.api, ex.processes, ex.userDefault,
                              buildpackDefault)
              e0 == [ex EXCEPT !.buildpackDefault = buildpackDefault]
              e1 == ImageCall([e0 EXCEPT !.entrypoint = r[1]],
                              "SetEntrypoint", NoSrc, "SetEntrypoint",
                              <<r[1]>>)
          IN  ex' = IF r[2] # <<>> THEN Fail(e0, "determining entrypoint")
                    ELSE IF ~callOk THEN Fail(e1, "setting entrypoint")
                    ELSE [e1 EXCEPT !.pc = "cmd"]
    /\ UNCHANGED cacheVars

\* Export, lines 142-144
SetCmd ==
    /\ ex.pc = "cmd"
    /\ \E callOk \in BOOLEAN :
          LET e1 == ImageCall(ex, "SetCmd", NoSrc, "SetCmd", <<>>)
          IN  ex' = IF ~callOk THEN Fail(e1, "setting cmd")
                    ELSE [e1 EXCEPT !.pc = "report"]
    /\ UNCHANGED cacheVars

\* Export, lines 146-150, and makeBuildReport, lines 462-479: the report is
\* empty below platform API 0.5; reading a build.toml may fail
makeBuildReport ==
    /\ ex.pc = "report"
    /\ \E ok \in BOOLEAN :
          ex' = IF LessThan(ex.api, 5)
                THEN [ex EXCEPT !.pc = "save"]
                ELSE IF ~ok /\ ex.nBuildpacks > 0
                THEN Fail(ex, "build report")
                ELSE [ex EXCEPT !.pc = "save", !.report.build = "bom"]
    /\ UNCHANGED cacheVars

\* Export, lines 151-160: the manifest size is kept from platform API 0.6
saveImage ==
    /\ ex.pc = "save"
    /\ \E callOk \in BOOLEAN :
          LET e1 == ImageCall(ex, "Save", NoSrc, "Save", <<>>)
          IN  ex' = IF ~callOk THEN Fail(e1, "saving image")
                    ELSE [e1 EXCEPT !.pc = "done",
                                    !.report.image = "saved",
                                    !.report.manifestSize =
                                        supportsManifestSize(ex.api)]
    /\ UNCHANGED cacheVars

----------------------------------------------------------------------------
(* Specifications of the cache.  Spec: one layer digest and the metadata  *)
(* file.  LayerSpec: two layer digests, no metadata file.                  *)

Init ==
    /\ dirs = [p \in Paths |-> NoDir]
    /\ links = {}
    /\ pc = "none"
    /\ committed = FALSE
    /\ pending = ""
    /\ last = Ret("", <<>>, "", "")
    /\ sessions = 0
    /\ put = {}
    /\ atCommit = NoCommit
    /\ lastGen = [files |-> <<>>, meta |-> NoMeta, crashed |-> FALSE]
    /\ sessMeta = NoMeta
    /\ ex = ExIdle

CommitStep ==
    \/ CommitBackup
    \/ CommitPromote
    \/ CommitRollback
    \/ CommitDefer

Next ==
    \/ NewVolumeCache
    \/ \E m \in MetaRecords : SetMetadata(m)
    \/ \E t \in Tars : AddLayerFile(t, DigestA)
    \/ \E t \in Tars : AddLayer(t, DigestA)
    \/ ReuseLayer(DigestA)
    \/ CommitStep
    \/ Crash

LayerNext ==
    \/ NewVolumeCache
    \/ \E t \in Tars, d \in Digests : AddLayerFile(t, d)
    \/ \E t \in Tars, d \in Digests : AddLayer(t, d)
    \/ \E d \in Digests : ReuseLayer(d)
    \/ CommitStep
    \/ Crash

Spec == Init /\ [][Next]_vars

LayerSpec == Init /\ [][LayerNext]_vars

\* One Export call; the cache is not touched.  Every layer
\* has the one digest of LayerDigests; the previous image has the layer
\* with this digest, or has no such layer.
OneDigestEntries == {o \in OrigEntries : o.sha \in {""} \cup LayerDigests}
OneDigestSHAs == {""} \cup LayerDigests
OneDigestApps == {<<>>, <<"sha256:new">>}

ExportNext ==
    \/ \E api \in PlatformAPIs, n \in 0..MaxBuildpacks : ExportStart(api, n)
    \/ ReadBuildpackLayersDir
    \/ LaunchLayer(OneDigestEntries, LayerDigests)
    \/ AppendBuildpack
    \/ SliceLayers(OneDigestApps)
    \/ AppSlice(LayerDigests)
    \/ LauncherLayer(OneDigestSHAs, LayerDigests)
    \/ ConfigLayer(OneDigestSHAs, LayerDigests)
    \/ launcherConfig(OneDigestSHAs, LayerDigests)
    \/ setLabels
    \/ setEnv
    \/ setEnvPolicy
    \/ setEnvPath
    \/ setWorkingDir
    \/ SetEntrypoint
    \/ SetCmd
    \/ makeBuildReport
    \/ saveImage

ExportSpec == Init /\ [][ExportNext]_vars

\* One Export call, platform API 0.6, against a previous image that may
\* record, for a buildpack layer, the digest of LayerDigests, another sha,
\* or nothing.
DigestNext ==
    \/ \E n \in 0..MaxBuildpacks : ExportStart(6, n)
    \/ ReadBuildpackLayersDir
    \/ LaunchLayer(OrigEntries, LayerDigests)
    \/ AppendBuildpack
    \/ SliceLayers(OneDigestApps)
    \/ AppSlice(LayerDigests)
    \/ LauncherLayer(PreviousSHAs, LayerDigests)
    \/ ConfigLayer(PreviousSHAs, LayerDigests)
    \/ launcherConfig(PreviousSHAs, LayerDigests)
    \/ setLabels
    \/ setEnv
    \/ setEnvPolicy
    \/ setEnvPath
    \/ setWorkingDir
    \/ SetEntrypoint
    \/ SetCmd
    \/ makeBuildReport
    \/ saveImage

DigestSpec == Init /\ [][DigestNext]_vars

\* One Export call, platform API 0.6, with no buildpack in the group.  The
\* layer factory gives each app slice one of two digests; the previous
\* image has no app layer, one with the first digest, or an unrelated one
\* followed by one with the first digest.
PreviousApps == {<<>>, <<"sha256:new">>, <<"sha256:old", "sha256:new">>}

SliceNext ==
    \/ ExportStart(6, 0)
    \/ SliceLayers(PreviousApps)
    \/ AppSlice(FactoryDigests)
    \/ LauncherLayer(OneDigestSHAs, LayerDigests)
    \/ ConfigLayer(OneDigestSHAs, LayerDigests)
    \/ launcherConfig(OneDigestSHAs, LayerDigests)
    \/ setLabels
    \/ setEnv
    \/ setEnvPolicy
    \/ setEnvPath
    \/ setWorkingDir
    \/ SetEntrypoint
    \/ SetCmd
    \/ makeBuildReport
    \/ saveImage

SliceSpec == Init /\ [][SliceNext]_vars

----------------------------------------------------------------------------
(* Claims about the cache *)

DiskNext == [dirs |-> dirs', links |-> links']

Mutators == {"SetMetadata", "AddLayerFile", "AddLayer", "ReuseLayer"}

CommitReturnedNil == pc = "idle" /\ last.op = "Commit" /\ last.err = ""

\* C1 as stated: after a Commit that returned nil, staging/ and
\* committed-backup/ do not exist, committed/ holds exactly the files that
\* calls returning nil put into staging/, and the instance is committed (so
\* a second Commit is refused).
C1_AsStated ==
    CommitReturnedNil =>
        /\ ~dirs[stagingDir].exists
        /\ ~dirs[backupDir].exists
        /\ dirs[committedDir].exists
        /\ DOMAIN dirs[committedDir].files = put
        /\ committed

\* C1 amended: after a Commit that returned nil, staging/ does not exist,
\* committed/ holds exactly the files staging/ held when Commit was called,
\* content included (also a file left by a call that failed part-way),
\* committed-backup/ is absent or holds files of the prior generation only
\* (its removal is best effort), and a further Commit returns
\* errCacheCommitted.
C1_CommitPromotesStaging ==
    [][CommitReturnedNil =>
        /\ ~dirs[stagingDir].exists
        /\ dirs[committedDir].exists
        /\ dirs[committedDir].files = atCommit.staging
        /\ \A n \in DOMAIN dirs[backupDir].files :
              /\ n \in DOMAIN atCommit.committed
              /\ dirs[backupDir].files[n] = atCommit.committed[n]
        /\ (last'.op = "Commit" => last'.err = errCacheCommitted)]_vars

C1_Witness ==
    /\ CommitReturnedNil
    /\ DOMAIN dirs[committedDir].files = {diffIDPath(DigestA), MetadataLabel}
    /\ put = {diffIDPath(DigestA), MetadataLabel}
    /\ DOMAIN atCommit.committed # {}


\* C2: once Commit has been called on an instance and has returned, with
\* nil or with an error, every call of SetMetadata, AddLayerFile, AddLayer,
\* ReuseLayer and Commit on it returns errCacheCommitted and leaves the
\* cache root as it was.
C2_RefusedAfterCommit ==
    [][(atCommit.called /\ pc = "idle"
            /\ last'.op \in Mutators \cup {"Commit"})
        => /\ last'.err = errCacheCommitted
           /\ dirs' = dirs
           /\ links' = links
           /\ pc' = "idle"]_vars

C2_Witness ==
    /\ atCommit.called
    /\ ~atCommit.promoted
    /\ last.op = "AddLayer"
    /\ last.err = errCacheCommitted
    /\ DOMAIN dirs[stagingDir].files # {}

PriorHeldIn(p) ==
    /\ dirs[p].exists
    /\ \A n \in DOMAIN atCommit.committed :
          /\ n \in DOMAIN dirs[p].files
          /\ dirs[p].files[n] = atCommit.committed[n]

\* C3: from the call of Commit until staging/ has been promoted, on every
\* path and wherever the process may die, committed/ or committed-backup/
\* exists and holds every file of the prior generation unchanged.
C3_PriorGenerationKept ==
    (atCommit.called /\ ~atCommit.promoted)
        => PriorHeldIn(committedDir) \/ PriorHeldIn(backupDir)

\* C4: whenever a freshly constructed VolumeCache looks at committed/, it
\* finds exactly what staging/ held at the most recent successful Commit
\* (no process having died inside Commit since).
C4_LastCommitIsWhatIsRead ==
    (pc = "idle" /\ last.op = "NewVolumeCache" /\ ~lastGen.crashed)
        => dirs[committedDir].files = lastGen.files

\* C5: before Commit, no SetMetadata, AddLayerFile, AddLayer or ReuseLayer
\* call changes the set of files of committed/ or the content of one.
C5_CommittedReadOnly ==
    [][(pc = "idle" /\ ~committed /\ last'.op \in Mutators)
        => dirs'[committedDir] = dirs[committedDir]]_vars

\* C6: before Commit the read operations see committed/ only: a digest
\* that is not in committed/ stays unknown to HasLayer (false, nil),
\* RetrieveLayerFile (error) and RetrieveLayer (error) whatever the session
\* stages, and RetrieveMetadata keeps returning what it returned before.
C6_ReadsSeeCommittedOnly ==
    [][(pc = "idle" /\ ~committed /\ last'.op \in Mutators)
        => /\ \A d \in Digests :
                ~Has(Disk, committedDir, diffIDPath(d))
                => /\ HasLayer(DiskNext, d) = <<FALSE, "">>
                   /\ RetrieveLayerFile(DiskNext, d)[2] # ""
                   /\ RetrieveLayer(DiskNext, d, TRUE)[2] # ""
           /\ RetrieveMetadata(DiskNext, TRUE) = RetrieveMetadata(Disk, TRUE)
      ]_vars

C6_Witness ==
    /\ pc = "idle"
    /\ ~committed
    /\ last.op = "AddLayer"
    /\ last.err = ""
    /\ Has(Disk, stagingDir, diffIDPath(DigestA))
    /\ ~Has(Disk, committedDir, diffIDPath(DigestA))
    /\ sessMeta.written
    /\ sessMeta.m = <<>>
    /\ RetrieveMetadata(Disk, TRUE) = <<<<"A">>, "">>

\* C7: the record of the last SetMetadata call of a session, that call
\* having returned nil, is what RetrieveMetadata returns, with no error, on
\* an instance constructed after the session's successful Commit.
C7_MetadataRoundTrip ==
    (pc = "idle" /\ ~atCommit.called /\ lastGen.meta.written)
        => RetrieveMetadata(Disk, TRUE) = <<lastGen.meta.m, "">>

C7_Witness ==
    /\ pc = "idle"
    /\ ~atCommit.called
    /\ last.op = "NewVolumeCache"
    /\ lastGen.meta.written
    /\ lastGen.meta.m = <<"A">>
    /\ Has(Disk, committedDir, diffIDPath(DigestA))

\* C8: AddLayerFile for a digest that already has a file in staging/
\* returns nil and leaves the disk as it is; ReuseLayer for a digest in
\* committed/ returns nil, and leaves the disk as it is when the digest
\* already has a file in staging/.
C8_SecondCallIsNoOp ==
    [][(pc = "idle" /\ ~committed)
        => \A d \in Digests :
             /\ (/\ last'.op = "AddLayerFile"
                 /\ last'.arg = d
                 /\ Has(Disk, stagingDir, diffIDPath(d)))
                => /\ last'.err = ""
                   /\ dirs' = dirs
                   /\ links' = links
             /\ (/\ last'.op = "ReuseLayer"
                 /\ last'.arg = d
                 /\ Has(Disk, committedDir, diffIDPath(d)))
                => /\ last'.err = ""
                   /\ Has(DiskNext, stagingDir, diffIDPath(d))
                   /\ (Has(Disk, stagingDir, diffIDPath(d))
                        => dirs' = dirs /\ links' = links)]_vars

C8_Witness ==
    /\ last.op = "ReuseLayer"
    /\ last.err = ""
    /\ last.did = "nothing"
    /\ <<diffIDPath(DigestA), {stagingDir, committedDir}>> \in links
    /\ Has(Disk, stagingDir, diffIDPath(DigestB))
    /\ ~Has(Disk, committedDir, diffIDPath(DigestB))

\* C9: a NewVolumeCache that returns nil leaves staging/ existing and
\* empty, committed-backup/ absent and committed/ existing with the files
\* it had, whatever earlier sessions left under the root.
C9_ConstructionResets ==
    [][(last'.op = "NewVolumeCache" /\ last'.err = ""
            /\ sessions' = sessions + 1)
        => /\ dirs'[stagingDir] = EmptyDir
           /\ dirs'[backupDir] = NoDir
           /\ dirs'[committedDir].exists
           /\ dirs'[committedDir].files = dirs[committedDir].files
           /\ links' = {}]_vars

C9_Witness ==
    /\ last.op = "NewVolumeCache"
    /\ last.err = ""
    /\ last.did = "found stale"
    /\ dirs[stagingDir] = EmptyDir
    /\ Cardinality(DOMAIN dirs[committedDir].files) = 2

\* the metadata file of committed/ is there
MetadataFilePresent ==
    /\ dirs[committedDir].exists
    /\ MetadataLabel \in DOMAIN dirs[committedDir].files

\* its content is a whole document, as SetMetadata writes one
WholeDocument(c) == \E m \in MetaRecords : c = <<"{">> \o m \o <<"}\n">>

\* C17: on every disk a live instance can see, RetrieveMetadata returns
\* the empty CacheMetadata and nil when committed/ has no metadata file,
\* when the file is empty and when its content is not a decodable
\* document; it returns an error exactly when the file is there and
\* opening it fails, and then the empty CacheMetadata with it.
C17_RetrieveMetadataTolerant ==
    Live =>
      \A openOk \in BOOLEAN :
         LET r == RetrieveMetadata(Disk, openOk)
         IN  /\ ~MetadataFilePresent => r = <<<<>>, "">>
             /\ (MetadataFilePresent /\ openOk
                   /\ dirs[committedDir].files[MetadataLabel] = <<>>)
                  => r = <<<<>>, "">>
             /\ (MetadataFilePresent /\ openOk
                   /\ ~WholeDocument(dirs[committedDir].files[MetadataLabel]))
                  => r = <<<<>>, "">>
             /\ (r[2] # "") = (MetadataFilePresent /\ ~openOk)
             /\ r[2] # "" => r[1] = <<>>

\* a committed metadata file that was cut off inside the document
C17_Witness ==
    /\ Live
    /\ MetadataFilePresent
    /\ dirs[committedDir].files[MetadataLabel] = <<"{", "A">>
    /\ RetrieveMetadata(Disk, TRUE) = <<<<>>, "">>

\* C18: after a failed promote rename, when the rollback rename succeeds
\* Commit returns "committing cache", committed/ exists and holds exactly
\* the files committed/ held when Commit was called, and
\* committed-backup/ does not exist; when the rollback rename fails
\* Commit returns "rolling back cache".
C18_RollbackOutcome ==
    [][/\ (pc = "rollback" /\ pc' = "defer")
          => IF ~dirs'[backupDir].exists
             THEN /\ pending' = "committing cache"
                  /\ dirs'[committedDir].exists
                  /\ dirs'[committedDir].files = atCommit.committed
             ELSE /\ pending' = "rolling back cache"
                  /\ dirs' = dirs
       /\ (pc = "defer" /\ pc' = "idle" /\ ~atCommit.promoted)
          => /\ last'.op = "Commit"
             /\ last'.err = pending
             /\ pending \in {"committing cache", "rolling back cache"}
             /\ pending = "committing cache"
                  => /\ dirs'[committedDir].exists
                     /\ dirs'[committedDir].files = atCommit.committed
                     /\ ~dirs'[backupDir].exists
      ]_vars

\* Commit has returned "committing cache" and a prior generation of one
\* layer is back in committed/
C18_Witness ==
    /\ pc = "idle"
    /\ last.op = "Commit"
    /\ last.err = "committing cache"
    /\ DOMAIN atCommit.committed # {}
    /\ dirs[committedDir].exists
    /\ dirs[committedDir].files = atCommit.committed
    /\ ~dirs[backupDir].exists

\* C19: when the promote rename and the rollback rename have both failed,
\* Commit returns leaving committed-backup/ on disk with the files
\* committed/ held when Commit was called, for the next NewVolumeCache to
\* find and remove.
C19_BackupLeftForNextConstruction ==
    [][(pc = "defer" /\ pending = "rolling back cache" /\ pc' = "idle")
          => /\ dirs'[backupDir].exists
             /\ dirs'[backupDir].files = atCommit.committed
      ]_vars

\* C20, as stated: when the backup rename fails Commit returns "backing up
\* cache", committed-backup/ does not exist, committed/ is unchanged, and
\* staging/ is gone or empty.
C20_AsStated ==
    [][(Live /\ ~committed /\ last'.op = "Commit"
          /\ last'.err = "backing up cache")
          => /\ ~dirs'[backupDir].exists
             /\ dirs'[committedDir] = dirs[committedDir]
             /\ \/ ~dirs'[stagingDir].exists
                \/ DOMAIN dirs'[stagingDir].files = {}
      ]_vars

\* C20: when the backup rename fails Commit returns "backing up cache"
\* and has changed nothing on disk: committed-backup/ does not exist,
\* committed/ and staging/ are as they were.  The instance is flagged
\* committed, so what staging/ holds can no longer be added to or
\* committed through it.
C20_BackupFailureChangesNothing ==
    [][(Live /\ ~committed /\ last'.op = "Commit"
          /\ last'.err = "backing up cache")
          => /\ ~dirs'[backupDir].exists
             /\ dirs'[committedDir] = dirs[committedDir]
             /\ dirs'[stagingDir] = dirs[stagingDir]
             /\ links' = links
             /\ committed'
             /\ pc' = "idle"
      ]_vars

\* Commit has failed at the backup rename with a layer staged and a prior
\* generation of one layer in committed/
C20_Witness ==
    /\ pc = "idle"
    /\ committed
    /\ last.op = "Commit"
    /\ last.err = "backing up cache"
    /\ ~dirs[backupDir].exists
    /\ DOMAIN dirs[committedDir].files # {}
    /\ dirs[committedDir].files = atCommit.committed
    /\ DOMAIN dirs[stagingDir].files # {}
    /\ dirs[stagingDir].files = atCommit.staging

\* the process died inside Commit at the given position, and nothing has
\* run since
CrashedAt(position) == last.op = "Crash" /\ last.did = position

\* C21: when the process dies inside Commit after the promote rename and
\* before the removal of committed-backup/, both committed/ and
\* committed-backup/ are on disk and committed/ holds exactly the files
\* staging/ held when Commit was called.  The next NewVolumeCache leaves
\* committed/ as it is; when it returns nil, committed-backup/ is gone and
\* HasLayer, RetrieveLayerFile, RetrieveLayer and RetrieveMetadata return
\* the staged layers and the metadata of the session that died.
C21_CrashAfterPromoteKeepsNew ==
    [][/\ (pc = "defer" /\ atCommit.promoted /\ last'.op = "Crash")
          => /\ dirs'[committedDir].exists
             /\ dirs'[committedDir].files = atCommit.staging
             /\ dirs'[backupDir].exists
             /\ ~dirs'[stagingDir].exists
       /\ (CrashedAt("defer") /\ atCommit.promoted
             /\ last'.op = "NewVolumeCache")
          => /\ dirs'[committedDir].exists
             /\ dirs'[committedDir].files = atCommit.staging
             /\ last'.err = ""
                  => /\ ~dirs'[backupDir].exists
                     /\ \A d \in Digests :
                          IF diffIDPath(d) \in DOMAIN atCommit.staging
                          THEN /\ HasLayer(DiskNext, d) = <<TRUE, "">>
                               /\ RetrieveLayerFile(DiskNext, d)
                                    = <<<<committedDir>> \o diffIDPath(d), "">>
                               /\ RetrieveLayer(DiskNext, d, TRUE)
                                    = <<atCommit.staging[diffIDPath(d)], "">>
                          ELSE /\ HasLayer(DiskNext, d) = <<FALSE, "">>
                               /\ RetrieveLayerFile(DiskNext, d)[2] # ""
                               /\ RetrieveLayer(DiskNext, d, TRUE)[2] # ""
                     /\ RetrieveMetadata(DiskNext, TRUE) = <<sessMeta.m, "">>
      ]_vars

\* the second construction on the root, after the first session died
\* between the promote rename and the removal of the backup: the staged
\* layer and metadata are what committed/ holds, the backup is gone
C21_Witness ==
    /\ pc = "idle"
    /\ sessions = 2
    /\ last.op = "NewVolumeCache"
    /\ last.arg = <<"defer">>
    /\ last.did = "found stale"
    /\ lastGen.crashed
    /\ lastGen.meta.written
    /\ lastGen.meta.m = <<"A">>
    /\ dirs[committedDir].files = lastGen.files
    /\ diffIDPath(DigestA) \in DOMAIN lastGen.files
    /\ RetrieveMetadata(Disk, TRUE) = <<<<"A">>, "">>
    /\ ~dirs[backupDir].exists

\* C22: when the process dies inside Commit after the backup rename and
\* before staging/ has been renamed to committed/, committed-backup/ holds
\* the files committed/ held when Commit was called and committed/ does
\* not exist.  A next NewVolumeCache that returns nil leaves no
\* committed-backup/, an empty committed/ and an empty staging/: HasLayer
\* is false and RetrieveLayerFile and RetrieveLayer fail for every digest,
\* staged or of the prior generation, and RetrieveMetadata is empty.
C22_CrashBeforePromoteLosesPrior ==
    [][/\ (pc \in {"promote", "rollback"} /\ last'.op = "Crash")
          => /\ dirs'[backupDir].exists
             /\ dirs'[backupDir].files = atCommit.committed
             /\ ~dirs'[committedDir].exists
       /\ ((CrashedAt("promote") \/ CrashedAt("rollback"))
             /\ last'.op = "NewVolumeCache" /\ last'.err = "")
          => /\ ~dirs'[backupDir].exists
             /\ dirs'[committedDir].exists
             /\ DOMAIN dirs'[committedDir].files = {}
             /\ dirs'[stagingDir].exists
             /\ DOMAIN dirs'[stagingDir].files = {}
             /\ \A d \in Digests :
                  /\ HasLayer(DiskNext, d) = <<FALSE, "">>
                  /\ RetrieveLayerFile(DiskNext, d)[2] # ""
                  /\ RetrieveLayer(DiskNext, d, TRUE)[2] # ""
             /\ RetrieveMetadata(DiskNext, TRUE) = <<<<>>, "">>
      ]_vars

\* the construction after a death between the two renames, at a root
\* whose prior generation had a layer: committed/ is empty
C22_Witness ==
    /\ pc = "idle"
    /\ last.op = "NewVolumeCache"
    /\ last.arg = <<"promote">>
    /\ last.err = ""
    /\ DOMAIN lastGen.files # {}
    /\ dirs[committedDir] = EmptyDir
    /\ ~dirs[backupDir].exists

\* C23: before Commit, an AddLayer(stream, d) that returns nil leaves
\* staging/<d>.tar with exactly the content of the stream, whether or not
\* the file was there and whatever it held; an AddLayerFile(p, d) called
\* when staging/<d>.tar is there returns nil and leaves staging/ as it is.
C23_AddLayerOverwrites ==
    [][(pc = "idle" /\ ~committed)
        => \A d \in Digests :
             /\ (/\ last'.op = "AddLayer"
                 /\ last'.err = ""
                 /\ last'.arg[1] = d)
                => /\ Has(DiskNext, stagingDir, diffIDPath(d))
                   /\ dirs'[stagingDir].files[diffIDPath(d)] = last'.arg[2]
                   /\ DOMAIN dirs'[stagingDir].files
                        = DOMAIN dirs[stagingDir].files \cup {diffIDPath(d)}
             /\ (/\ last'.op = "AddLayerFile"
                 /\ last'.arg = d
                 /\ Has(Disk, stagingDir, diffIDPath(d)))
                => /\ last'.err = ""
                   /\ dirs'[stagingDir] = dirs[stagingDir]
      ]_vars

\* AddLayer has replaced the content of a file that was in staging/ and
\* was not a link to committed/
C23_Witness ==
    /\ pc = "idle"
    /\ ~committed
    /\ last.op = "AddLayer"
    /\ last.err = ""
    /\ last.did = "truncated"
    /\ last.arg = <<DigestA, <<"y">>>>
    /\ dirs[stagingDir].files[diffIDPath(DigestA)] = <<"y">>
    /\ ~Has(Disk, committedDir, diffIDPath(DigestA))

\* C24, as stated, its cases tried in the order given: before Commit,
\* ReuseLayer(d) links committed/<d>.tar into staging/ and returns nil
\* when only committed/ has the file; returns nil and leaves staging/
\* unchanged when staging/<d>.tar is there; and otherwise, d not being in
\* committed/, returns "reusing layer" and leaves staging/ unchanged.
C24_AsStated ==
    [][(pc = "idle" /\ ~committed)
        => \A d \in Digests :
             (last'.op = "ReuseLayer" /\ last'.arg = d)
                => IF /\ Has(Disk, committedDir, diffIDPath(d))
                      /\ ~Has(Disk, stagingDir, diffIDPath(d))
                   THEN /\ last'.err = ""
                        /\ Has(DiskNext, stagingDir, diffIDPath(d))
                   ELSE IF Has(Disk, stagingDir, diffIDPath(d))
                   THEN /\ last'.err = ""
                        /\ dirs'[stagingDir] = dirs[stagingDir]
                   ELSE /\ last'.err = "reusing layer"
                        /\ dirs'[stagingDir] = dirs[stagingDir]
      ]_vars

\* C24: before Commit, ReuseLayer(d) returns "reusing layer" and changes
\* nothing when committed/<d>.tar is not there, whether or not
\* staging/<d>.tar is.  When committed/<d>.tar is there it returns nil:
\* if staging/<d>.tar is there too nothing changes; if not,
\* staging/<d>.tar becomes another name of the committed file, with its
\* content, and nothing else changes.
C24_ReuseLayerCases ==
    [][(pc = "idle" /\ ~committed)
        => \A d \in Digests :
             (last'.op = "ReuseLayer" /\ last'.arg = d)
                => IF ~Has(Disk, committedDir, diffIDPath(d))
                   THEN /\ last'.err = "reusing layer"
                        /\ dirs' = dirs
                        /\ links' = links
                   ELSE IF Has(Disk, stagingDir, diffIDPath(d))
                   THEN /\ last'.err = ""
                        /\ dirs' = dirs
                        /\ links' = links
                   ELSE /\ last'.err = ""
                        /\ dirs'[committedDir] = dirs[committedDir]
                        /\ dirs'[stagingDir].files
                             = With(dirs[stagingDir].files, diffIDPath(d),
                                    dirs[committedDir].files[diffIDPath(d)])
                        /\ \E l \in links' :
                             /\ l[1] = diffIDPath(d)
                             /\ {stagingDir, committedDir} \subseteq l[2]
      ]_vars

\* ReuseLayer has failed for a digest that is staged and is not in
\* committed/
C24_Witness ==
    /\ pc = "idle"
    /\ ~committed
    /\ last.op = "ReuseLayer"
    /\ last.arg = DigestA
    /\ last.err = "reusing layer"
    /\ Has(Disk, stagingDir, diffIDPath(DigestA))
    /\ ~Has(Disk, committedDir, diffIDPath(DigestA))
    /\ <<diffIDPath(DigestB), {stagingDir, committedDir}>> \in links

----------------------------------------------------------------------------
(* Claims about the exporter *)

IsLayerCall(c) == c.fn = "layer"

\* the layers the layer calls issued so far are for, in call order
LayerCalls ==
    LET L == SelectSeq(ex.calls, IsLayerCall)
    IN  [k \in 1..Len(L) |-> L[k].of]

RECURSIVE BuildpackLayers(_, _)
BuildpackLayers(counts, i) ==
    IF i > Len(counts) THEN <<>>
    ELSE [j \in 1..counts[i] |-> Src("buildpack", i, j)]
            \o BuildpackLayers(counts, i + 1)

\* the layer calls of a successful Export, from the inputs it has read
ExpectedLayerCalls ==
    BuildpackLayers(ex.seen.launch, 1)
        \o [k \in 1..ex.seen.slices |-> Src("slice", k, 0)]
        \o <<Src("launcher", 0, 0), Src("config", 0, 0)>>
        \o (IF ex.api >= 4 /\ Len(ex.processes) >= 1
            THEN <<Src("process-types", 0, 0)>> ELSE <<>>)

Phase(s) ==
    CASE s.kind = "buildpack" -> 1
      [] s.kind = "slice" -> 2
      [] s.kind = "launcher" -> 3
      [] s.kind = "config" -> 4
      [] s.kind = "process-types" -> 5

Before(s, t) ==
    \/ Phase(s) < Phase(t)
    \/ Phase(s) = Phase(t) /\ s.i < t.i
    \/ Phase(s) = Phase(t) /\ s.i = t.i /\ s.j < t.j

\* C10: the layer calls of a successful Export are, in this order: one per
\* launch layer of each buildpack, buildpacks in group order; one per app
\* slice in the order of SliceLayers; launcher; config; and process-types
\* exactly when the platform API is at least 0.4 and there is a process.
\* At no point of any Export is a layer call issued out of this order.
C10_LayerCallOrder ==
    /\ ex.pc = "done"
        => /\ LayerCalls = ExpectedLayerCalls
           /\ Len(ex.seen.launch) = ex.nBuildpacks
    /\ \A k \in 1..(Len(LayerCalls) - 1) :
          Before(LayerCalls[k], LayerCalls[k + 1])

C10_Witness ==
    /\ ex.pc = "done"
    /\ ex.seen.launch = <<2, 1>>
    /\ ex.seen.slices = 2
    /\ ex.api = 4
    /\ ex.processes = <<"web">>
    /\ Len(LayerCalls) = 8

\* the states in which Export is about to call addOrReuseLayer, and the
\* layer the call would be for
AtSelector == ex.pc \in {"layer", "launcher", "config", "processTypes"}

SelectorLayer ==
    CASE ex.pc = "layer" -> Src("buildpack", ex.bp, ex.layer)
      [] ex.pc = "launcher" -> Src("launcher", 0, 0)
      [] ex.pc = "config" -> Src("config", 0, 0)
      [] ex.pc = "processTypes" -> Src("process-types", 0, 0)

\* C11: wherever Export calls it and whatever digest and previous sha it
\* is given, addOrReuseLayer on a materialized layer issues exactly one
\* layer call: ReuseLayer(previousSHA) when the digest equals previousSHA,
\* AddLayerWithDiffID(tarPath, digest) otherwise; it returns the digest it
\* passed to the call, also when the call fails.  When the layer cannot
\* be materialized it issues no call.  Every layer call addOrReuseLayer
\* has issued in a run was chosen this way.
C11_OneCallByDigestEquality ==
    /\ AtSelector =>
         \A digest \in FactoryDigests, previousSHA \in PreviousSHAs,
            callOk \in BOOLEAN :
            LET r == addOrReuseLayer(ex, SelectorLayer, digest, previousSHA,
                                     TRUE, callOk)
                f == addOrReuseLayer(ex, SelectorLayer, digest, previousSHA,
                                     FALSE, callOk)
                c == r.ex.lastCall
            IN  /\ r.ex.calls = Append(ex.calls, [fn |-> "layer",
                                                  of |-> SelectorLayer])
                /\ digest = previousSHA
                     => c.fn = "ReuseLayer" /\ c.args = <<previousSHA>>
                /\ digest # previousSHA
                     => /\ c.fn = "AddLayerWithDiffID"
                        /\ c.args = <<TarPath(SelectorLayer), digest>>
                /\ r.sha = c.args[Len(c.args)]
                /\ (r.err = "") = callOk
                /\ f.ex = ex /\ f.sha = "" /\ f.err # ""
    /\ ex.lastCall.sel # <<>> =>
         LET digest == ex.lastCall.sel[1]
             previousSHA == ex.lastCall.sel[2]
         IN  /\ ex.lastCall.fn = IF digest = previousSHA THEN "ReuseLayer"
                                 ELSE "AddLayerWithDiffID"
             /\ ex.lastCall.args[Len(ex.lastCall.args)] = digest
             /\ ex.calls[Len(ex.calls)].fn = "layer"

C11_Witness ==
    /\ ex.pc = "processTypes"
    /\ ex.lastCall.fn = "ReuseLayer"
    /\ ex.lastCall.sel = <<"sha256:new", "sha256:new">>
    /\ ex.lastCall.args = <<ex.meta.config>>
    /\ ex.calls[Len(ex.calls)].of = Src("config", 0, 0)
    /\ ex.calls[Len(ex.calls) - 1].of = Src("launcher", 0, 0)

\* C12: with the empty string as previous sha, addOrReuseLayer calls
\* AddLayerWithDiffID and not ReuseLayer, for every digest of the layer
\* factory; so does every call of a run that was chosen against an empty
\* previous sha (a buildpack layer the previous image has no entry for).
C12_NoPriorForcesAdd ==
    /\ AtSelector =>
         \A digest \in FactoryDigests, callOk \in BOOLEAN :
            LET r == addOrReuseLayer(ex, SelectorLayer, digest, "", TRUE,
                                     callOk)
            IN  /\ r.ex.lastCall.fn = "AddLayerWithDiffID"
                /\ r.ex.lastCall.args = <<TarPath(SelectorLayer), digest>>
                /\ Len(r.ex.calls) = Len(ex.calls) + 1
    /\ (ex.lastCall.sel # <<>> /\ ex.lastCall.sel[2] = "")
         => ex.lastCall.fn = "AddLayerWithDiffID"

C12_Witness ==
    /\ ex.pc = "layer"
    /\ ex.layer = 2
    /\ ex.lastCall.sel = <<"sha256:new", "">>
    /\ ex.lastCall.fn = "AddLayerWithDiffID"
    /\ ex.calls[Len(ex.calls)].of = Src("buildpack", 1, 1)
    /\ ex.bpLayers = <<"sha256:new">>

\* the digest argument of the most recent layer call
DigestPassed(e) == e.lastCall.args[Len(e.lastCall.args)]

\* C13: the sha Export records for a launch layer of a buildpack is not
\* empty and is the digest it passed to the one layer call it issued for
\* that layer: a sha of the previous image when that call was ReuseLayer,
\* the digest computed by the layer factory when it was
\* AddLayerWithDiffID; the shas recorded go unchanged into
\* LayersMetadata.buildpacks and from there into the metadata label.
C13_LayerShaIsDigestPassed ==
    [][/\ (ex.pc = "layer" /\ ex'.pc \in {"layer", "bpdone"})
          => /\ ex'.calls = Append(ex.calls,
                    [fn |-> "layer", of |-> Src("buildpack", ex.bp, ex.layer)])
             /\ ex'.bpLayers = Append(ex.bpLayers, DigestPassed(ex'))
             /\ DigestPassed(ex') # ""
             /\ \/ /\ ex'.lastCall.fn = "ReuseLayer"
                   /\ DigestPassed(ex') \in OrigSHAs
                \/ /\ ex'.lastCall.fn = "AddLayerWithDiffID"
                   /\ DigestPassed(ex') \in LayerDigests
       /\ ex.pc = "bpdone"
          => ex'.meta.buildpacks =
                Append(ex.meta.buildpacks,
                       [id |-> ex.bp, layers |-> ex.bpLayers])
       /\ ex.pc \notin {"off", "bpdone", "labels"}
          => ex'.meta.buildpacks = ex.meta.buildpacks
       /\ (ex.pc = "labels" /\ ex.label = 1)
          => ex'.lastCall.args = <<LayerMetadataLabel, ex.meta>>
       /\ \A i \in 1..Len(ex'.meta.buildpacks) :
            \A j \in 1..Len(ex'.meta.buildpacks[i].layers) :
               ex'.meta.buildpacks[i].layers[j] # ""
      ]_vars

C13_Witness ==
    /\ ex.pc = "labels"
    /\ ex.label = 2
    /\ ex.lastCall.fn = "SetLabel"
    /\ ex.lastCall.args[1] = LayerMetadataLabel
    /\ ex.lastCall.args[2].buildpacks =
          <<[id |-> 1, layers |-> <<"sha256:old", "sha256:new">>],
            [id |-> 2, layers |-> <<"sha256:new">>]>>

\* the rows of the entrypoint policy table, in the order they are tried
PolicyRow(api, processes, userDefault, buildpackDefault) ==
    LET found == \E k \in 1..Len(processes) : processes[k] = userDefault
    IN  CASE api < 4 -> 1
          [] api >= 4 /\ userDefault # "" /\ found -> 2
          [] api >= 4 /\ userDefault # "" /\ ~found /\ api < 6 -> 3
          [] api >= 4 /\ userDefault # "" /\ ~found /\ api >= 6 -> 4
          [] api >= 4 /\ userDefault = "" /\ api < 6 /\ Len(processes) = 1
                -> 5
          [] /\ api >= 4 /\ userDefault = ""
             /\ ~(api < 6 /\ Len(processes) = 1)
             /\ buildpackDefault # "" -> 6
          [] OTHER -> 7

PolicyResult(api, processes, userDefault, buildpackDefault) ==
    LET row == PolicyRow(api, processes, userDefault, buildpackDefault)
    IN  CASE row \in {1, 3, 7} -> <<<<"/cnb/lifecycle/launcher">>, <<>>>>
          [] row = 2 -> <<<<"/cnb/process/", userDefault>>, <<>>>>
          [] row = 4 -> <<<<>>, <<"tried to set ", userDefault,
                                 " to default but it doesn't exist">>>>
          [] row = 5 -> <<<<"/cnb/process/", processes[1]>>, <<>>>>
          [] row = 6 -> <<<<"/cnb/process/", buildpackDefault>>, <<>>>>

\* C14: wherever Export is about to call it, and for every platform API,
\* process list, user default and buildpack default, entrypoint() returns
\* what the first matching row of the policy table prescribes; the
\* entrypoint Export sets on the image is that result for the inputs of
\* the run, and when the row is the error row Export fails without
\* setting an entrypoint.
C14_EntrypointPolicyTable ==
    /\ ex.pc = "entrypoint"
          => \A api \in PlatformAPIs, processes \in ProcessLists,
                userDefault \in UserDefaults,
                buildpackDefault \in BuildpackDefaults :
                entrypoint(api, processes, userDefault, buildpackDefault)
                   = PolicyResult(api, processes, userDefault,
                                  buildpackDefault)
    /\ ex.pc \in {"cmd", "report", "save", "done"}
          => LET t == PolicyResult(ex.api, ex.processes, ex.userDefault,
                                   ex.buildpackDefault)
             IN  /\ t[2] = <<>>
                 /\ ex.entrypoint = t[1]
                 /\ ex.pc = "cmd" =>
                       /\ ex.lastCall.fn = "SetEntrypoint"
                       /\ ex.lastCall.args = <<t[1]>>
    /\ (ex.pc = "failed" /\ ex.err = "determining entrypoint")
          => /\ PolicyRow(ex.api, ex.processes, ex.userDefault,
                          ex.buildpackDefault) = 4
             /\ ex.entrypoint = <<>>
             /\ ex.lastCall.fn # "SetEntrypoint"

\* a buildpack default decides the entrypoint: platform API 0.6, one
\* process, no user default
C14_Witness ==
    /\ ex.pc = "cmd"
    /\ ex.api = 6
    /\ ex.processes = <<"web">>
    /\ ex.userDefault = ""
    /\ ex.buildpackDefault = "worker"
    /\ ex.lastCall.args = <<ProcessPath("worker")>>

\* the number of SetEnv calls issued for a variable
SetEnvCount(e, name) ==
    Cardinality({k \in 1..Len(e.calls) :
                    e.calls[k] = [fn |-> "SetEnv", of |-> Src(name, 0, 0)]})

\* Export is past setEnv, which returned nil
EnvApplied(e) ==
    e.pc \in {"workdir", "entrypoint", "cmd", "report", "save", "done"}

InLaunchMetadata(e, type) ==
    \E k \in 1..Len(e.processes) : e.processes[k] = type

\* C15: once setEnv has returned nil, CNB_LAYERS_DIR, CNB_APP_DIR,
\* CNB_PLATFORM_API and CNB_DEPRECATION_MODE have each been set once, to
\* the layers dir, the app dir, the platform API and "quiet"; PATH has
\* been set exactly when the platform API is at least 0.4, to the process
\* dir and the launcher dir prepended to the PATH read from the image;
\* CNB_PROCESS_TYPE has been set exactly when the platform API is below
\* 0.4 and a user default process type is given, to that type, which is
\* in the launch metadata.  With a platform API below 0.4 and a user
\* default that is not in the process list Export fails, and
\* CNB_PROCESS_TYPE is never set to a type that is not in the list.
C15_EnvPolicy ==
    [][/\ EnvApplied(ex')
          => /\ \A k \in 1..Len(EnvNames) : SetEnvCount(ex', EnvNames[k]) = 1
             /\ SetEnvCount(ex', "PATH") = IF ex'.api >= 4 THEN 1 ELSE 0
             /\ SetEnvCount(ex', "CNB_PROCESS_TYPE")
                   = IF ex'.api < 4 /\ ex'.userDefault # "" THEN 1 ELSE 0
             /\ SetEnvCount(ex', "CNB_PROCESS_TYPE") = 1
                   => InLaunchMetadata(ex', ex'.userDefault)
       /\ SetEnvCount(ex', "CNB_PROCESS_TYPE") > 0
          => /\ ex'.api < 4
             /\ ex'.userDefault # ""
             /\ InLaunchMetadata(ex', ex'.userDefault)
       /\ (ex.pc = "env" /\ Len(ex'.calls) > Len(ex.calls))
          => \E k \in 1..Len(EnvNames) :
                /\ ex'.lastCall.args[1] = EnvNames[k]
                /\ ex'.lastCall.args[1]
                      = <<"CNB_LAYERS_DIR", "CNB_APP_DIR", "CNB_PLATFORM_API",
                          "CNB_DEPRECATION_MODE">>[k]
                /\ ex'.lastCall.args[2]
                      = <<"opts.LayersDir", "opts.AppDir", ex.api, "quiet">>[k]
       /\ (ex.pc = "envPath" /\ Len(ex'.calls) > Len(ex.calls))
          => /\ ex.lastCall.fn = "Env"
             /\ ex.lastCall.args = <<"PATH">>
             /\ ex'.lastCall.fn = "SetEnv"
             /\ ex'.lastCall.args
                   = <<"PATH", <<"/cnb/process", ":", "/cnb/lifecycle", ":",
                                 ex.path>>>>
       /\ (ex.pc = "envPolicy" /\ ex'.api < 4 /\ ex'.userDefault # "")
          => IF InLaunchMetadata(ex', ex'.userDefault)
             THEN /\ ex'.lastCall.fn = "SetEnv"
                  /\ ex'.lastCall.args = <<"CNB_PROCESS_TYPE", ex'.userDefault>>
             ELSE /\ ex'.pc = "failed"
                  /\ ex'.calls = ex.calls
       /\ (ex.pc = "failed" /\ ex.api < 4 /\ ex.userDefault # ""
             /\ ~InLaunchMetadata(ex, ex.userDefault))
          => SetEnvCount(ex, "CNB_PROCESS_TYPE") = 0
      ]_vars

\* platform API 0.3: CNB_PROCESS_TYPE=web was set and the export went on
C15_Witness ==
    /\ ex.pc = "done"
    /\ ex.api = 3
    /\ ex.userDefault = "web"
    /\ ex.processes = <<"web", "worker">>
    /\ SetEnvCount(ex, "CNB_PROCESS_TYPE") = 1
    /\ SetEnvCount(ex, "PATH") = 0

\* the number of calls of an image method issued so far
CallCount(e, fn) ==
    Cardinality({k \in 1..Len(e.calls) : e.calls[k].fn = fn})

\* the number of SetLabel calls issued for a label
SetLabelCount(e, key) ==
    Cardinality({k \in 1..Len(e.calls) :
                    e.calls[k] = [fn |-> "SetLabel", of |-> Src(key, 0, 0)]})

\* every step Export takes before the save has been applied
AllStepsApplied ==
    /\ LayerCalls = ExpectedLayerCalls
    /\ Len(ex.seen.launch) = ex.nBuildpacks
    /\ \A k \in 1..Len(FixedLabels) : SetLabelCount(ex, FixedLabels[k]) = 1
    /\ \A k \in 1..Len(EnvNames) : SetEnvCount(ex, EnvNames[k]) = 1
    /\ SetEnvCount(ex, "PATH") = IF ex.api >= 4 THEN 1 ELSE 0
    /\ CallCount(ex, "SetWorkingDir") = IF ex.api >= 6 THEN 1 ELSE 0
    /\ CallCount(ex, "SetEntrypoint") = 1
    /\ CallCount(ex, "SetCmd") = 1

\* C16: Export stops at the first step that returns an error: it is then
\* in its final state, with the error and the empty report, and issues no
\* call on the working image afterwards.  Save is called at most once, is
\* the last call in every state, and is called only when the buildpack,
\* app and launcher layers, the labels, the environment, the working
\* directory (platform API 0.6), the entrypoint and the empty cmd have
\* all been applied without an error; a run that returns nil has saved.
C16_AbortAtFirstFailure ==
    [][/\ ex.pc = "failed" => ex' = ex
       /\ ex.pc = "done" => ex' = ex
       /\ (ex'.err # "") = (ex'.pc = "failed")
       /\ ex'.pc = "failed"
          => /\ ex'.report = [build |-> "", image |-> "",
                              manifestSize |-> FALSE]
             /\ Len(ex'.calls) <= Len(ex.calls) + 1
             /\ CallCount(ex', "Save") = 1 => ex'.err = "saving image"
       /\ \A k \in 1..Len(ex'.calls) :
             ex'.calls[k].fn = "Save" => k = Len(ex'.calls)
       /\ CallCount(ex', "Save") = 1
          => /\ ex.pc = "save" \/ ex' = ex
             /\ AllStepsApplied'
             /\ ex'.calls[Len(ex'.calls) - 1].fn = "SetCmd"
       /\ ex.pc = "save" => AllStepsApplied
       /\ ex'.pc = "done"
          => /\ CallCount(ex', "Save") = 1
             /\ ex'.report.image = "saved"
      ]_vars

\* Export failed at SetEntrypoint after the layers, labels and environment
\* were applied, and did not save
C16_Witness ==
    /\ ex.pc = "failed"
    /\ ex.err = "setting entrypoint"
    /\ ex.calls[Len(ex.calls)].fn = "SetEntrypoint"
    /\ Len(LayerCalls) >= 5
    /\ CallCount(ex, "Save") = 0
    /\ ex.report = EmptyReport

\* C25: for a launch layer without local contents Export fails with
\* "layer ... is cache=true but has no contents" when the layer's metadata
\* has cache=true, and with "cannot reuse ..., previous image has no
\* metadata for layer ..." when cache is false and the previous image has
\* no entry for the layer, in both cases without a call on the image;
\* otherwise the one call it issues for the layer is ReuseLayer with the
\* sha of the previous image's entry, and that sha is what it records for
\* the layer.
C25_ReuseOnlyLayer ==
    [][(ex.pc = "layer" /\ ex' # ex /\ ex'.fsLayer.reuseOnly)
          => IF ex'.fsLayer.cache
             THEN /\ ex'.pc = "failed"
                  /\ ex'.err = "layer is cache=true but has no contents"
                  /\ ex'.calls = ex.calls
             ELSE IF ~ex'.fsLayer.orig.present
             THEN /\ ex'.pc = "failed"
                  /\ ex'.err = "cannot reuse, previous image has no metadata for layer"
                  /\ ex'.calls = ex.calls
             ELSE /\ ex'.calls = Append(ex.calls,
                        [fn |-> "layer",
                         of |-> Src("buildpack", ex.bp, ex.layer)])
                  /\ ex'.lastCall.fn = "ReuseLayer"
                  /\ ex'.lastCall.args = <<ex'.fsLayer.orig.sha>>
                  /\ ex'.fsLayer.orig.sha \in OrigSHAs
                  /\ \/ ex'.pc = "failed" /\ ex'.err = "reusing layer"
                     \/ /\ ex'.pc \in {"layer", "bpdone"}
                        /\ ex'.bpLayers
                             = Append(ex.bpLayers, ex'.fsLayer.orig.sha)
      ]_vars

\* a layer without contents was reused with the sha the previous image
\* has for it, after a layer with contents was added
C25_Witness ==
    /\ ex.pc = "bpdone"
    /\ ex.fsLayer.reuseOnly
    /\ ~ex.fsLayer.cache
    /\ ex.fsLayer.orig = [present |-> TRUE, sha |-> "sha256:old"]
    /\ ex.lastCall = [fn |-> "ReuseLayer", args |-> <<"sha256:old">>,
                      sel |-> <<>>]
    /\ ex.bpLayers = <<"sha256:new", "sha256:old">>

\* C26: a buildpack with a malformed layer makes Export fail when the
\* buildpack is done: by then one layer call has been issued for each of
\* its launch layers and its record, with one sha per launch layer, is the
\* last of LayersMetadata.buildpacks.  In the failed state the layer calls
\* are exactly those of the launch layers of the buildpacks up to and
\* including this one, in order, every one of these buildpacks has its
\* record, and there is no call for a later buildpack, an app slice or a
\* launcher layer.
C26_MalformedFailsAfterSiblings ==
    [][/\ (ex.pc = "bpdone" /\ ex.malformed /\ ex' # ex)
          => /\ ex'.pc = "failed"
             /\ ex'.err = "failed to parse metadata for layers"
             /\ Len(ex.bpLayers) = ex.nLayers
             /\ ex'.meta.buildpacks
                  = Append(ex.meta.buildpacks,
                           [id |-> ex.bp, layers |-> ex.bpLayers])
             /\ ex'.calls = ex.calls
       /\ (ex'.pc = "failed"
             /\ ex'.err = "failed to parse metadata for layers")
          => /\ ex.pc = "bpdone" \/ ex' = ex
             /\ ex'.malformed
             /\ Len(ex'.seen.launch) = ex'.bp
             /\ LayerCalls' = BuildpackLayers(ex'.seen.launch, 1)
             /\ Len(ex'.meta.buildpacks) = ex'.bp
             /\ \A i \in 1..ex'.bp :
                  /\ ex'.meta.buildpacks[i].id = i
                  /\ Len(ex'.meta.buildpacks[i].layers) = ex'.seen.launch[i]
             /\ \A k \in 1..Len(ex'.calls) :
                  ex'.calls[k].fn \in {"TopLayer", "layer"}
      ]_vars

\* the second buildpack, with one launch layer and a malformed one, has
\* ended the export after the first buildpack's two layers
C26_Witness ==
    /\ ex.pc = "failed"
    /\ ex.err = "failed to parse metadata for layers"
    /\ ex.nBuildpacks = 2
    /\ ex.bp = 2
    /\ ex.seen.launch = <<2, 1>>
    /\ Len(LayerCalls) = 3
    /\ Len(ex.meta.buildpacks) = 2

IsSliceLayer(of) == of.kind = "slice"

\* C27: an app slice is handed to the image by one call, ReuseLayer with
\* the slice's digest exactly when some entry of the previous image's
\* LayersMetadata.app has that digest and AddLayerWithDiffID with the
\* slice's tar path and digest otherwise; when the call succeeds the digest
\* is appended to LayersMetadata.app.  When addAppLayers succeeds, the
\* slices have had their calls in slice order, LayersMetadata.app has one
\* entry per slice, and the reused and the added slices together are all
\* the slices: before a slice's call the two counts sum to the number of
\* slices already handled, the call raises one of them, and the last call
\* is that of the last slice.
C27_AppSlices ==
    [][/\ (ex.pc = "slice" /\ ex' # ex)
          => LET of == Src("slice", ex.slice, 0)
                 c == ex'.lastCall
                 digest == c.args[Len(c.args)]
             IN  /\ ex'.calls = Append(ex.calls, [fn |-> "layer", of |-> of])
                 /\ Len(ex.meta.app) = ex.slice - 1
                 /\ ex.reused + ex.added = ex.slice - 1
                 /\ IF \E k \in 1..Len(ex.origApp) : ex.origApp[k] = digest
                    THEN /\ c.fn = "ReuseLayer"
                         /\ c.args = <<digest>>
                         /\ ex'.pc # "launcher"
                            => /\ ex'.reused = ex.reused + 1
                               /\ ex'.added = ex.added
                    ELSE /\ c.fn = "AddLayerWithDiffID"
                         /\ c.args = <<TarPath(of), digest>>
                         /\ ex'.pc # "launcher"
                            => /\ ex'.added = ex.added + 1
                               /\ ex'.reused = ex.reused
                 /\ ex'.pc = "launcher" => ex.slice = ex'.seen.slices
                 /\ IF ex'.pc = "failed"
                    THEN ex'.meta.app = ex.meta.app
                    ELSE ex'.meta.app = Append(ex.meta.app, digest)
       /\ (ex.pc \in {"slices", "slice"} /\ ex'.pc = "launcher")
          => /\ Len(ex'.meta.app) = ex'.seen.slices
             /\ SelectSeq(LayerCalls', IsSliceLayer)
                  = [k \in 1..ex'.seen.slices |-> Src("slice", k, 0)]
      ]_vars

\* two slices are done: the first was added, the second reused
C27_Witness ==
    /\ ex.pc = "launcher"
    /\ ex.seen.slices = 2
    /\ ex.meta.app = <<"sha256:other", "sha256:new">>
    /\ ex.lastCall.fn = "ReuseLayer"
    /\ ex.lastCall.args = <<"sha256:new">>

====
